---------------------------- MODULE Spec2Model ----------------------------
(***************************************************************************)
(* Semantic-guided VL/IG router (vlig_semantic_guided_router.cpp):         *)
(* prompt sanitizer, classifier bank, scene plan assembler and canonical   *)
(* JSON serializer, modelled as the sequence of statements that            *)
(* BuildSemanticIGSpec executes for one request after another.             *)
(*                                                                         *)
(* A std::string is a sequence of bytes; a byte is a number in 0..255.     *)
(* Positions handed to std::string::find are 0-based as in the code; the   *)
(* sequences themselves are indexed from 1.                                *)
(***************************************************************************)
EXTENDS Integers, Sequences, FiniteSets, TLC

(***************************************************************************)
(* State.  One invocation of BuildSemanticIGSpec runs at a time; pc is the *)
(* statement it is about to execute.  The other variables hold the         *)
(* invocations of other threads and the components next to the router.     *)
(***************************************************************************)
VARIABLES
  pc,          \* "idle" between invocations, else the next statement
  req,         \* arguments of the current (or last) invocation
  step1,       \* locals of sanitizePromptForVision
  step2,
  step3,
  plan,        \* local of buildScenePlanFromPrompt
  result,      \* local of BuildSemanticIGSpec: absent until assigned
  ran,         \* stages the current (or last) invocation has executed
  ret,         \* what the caller got from the last finished invocation
  log,         \* finished invocations in order: request and outcome
  threads,     \* the locals of the invocations of the threads that wait
  tracer,      \* a VCVisualTracePipeline and its current call of run
  preprocessor,\* a VCImagePreprocessor and its current call of process
  captioner    \* a VTViTGPT2Captioner and its current call of GenerateCaptionTokens

vars == <<pc, req, step1, step2, step3, plan, result, ran, ret, log,
          threads, tracer, preprocessor, captioner>>

\* What a statement of the router leaves alone.
beside == <<threads, tracer, preprocessor, captioner>>

\* What a statement of another component leaves alone.
router == <<pc, req, step1, step2, step3, plan, result, ran, ret, log>>

(***************************************************************************)
(* Text literals.  PrintableLow holds the ASCII characters 32..95 and      *)
(* PrintableHigh the characters 97..126, each in code order (the grave     *)
(* accent, 96, cannot be written in a string and occurs in no literal of   *)
(* the source).                                                            *)
(***************************************************************************)
PrintableLow ==
  " !\"#$%&'()*+,-./0123456789:;<=>?@ABCDEFGHIJKLMNOPQRSTUVWXYZ[\\]^_"

PrintableHigh == "abcdefghijklmnopqrstuvwxyz{|}~"

CharCode ==
  [ch \in {SubSeq(PrintableLow, i, i) : i \in 1..Len(PrintableLow)}
          \cup {SubSeq(PrintableHigh, i, i) : i \in 1..Len(PrintableHigh)} |->
     IF \E i \in 1..Len(PrintableLow) : SubSeq(PrintableLow, i, i) = ch
     THEN 31 + (CHOOSE i \in 1..Len(PrintableLow) :
                  SubSeq(PrintableLow, i, i) = ch)
     ELSE 96 + (CHOOSE i \in 1..Len(PrintableHigh) :
                  SubSeq(PrintableHigh, i, i) = ch)]

\* A function on 1..n laid out as the string of its n values.
AsString(f, n) == SubSeq(f, 1, n)

\* The bytes of a string literal of the source.
Bytes(str) == AsString([i \in 1..Len(str) |-> CharCode[SubSeq(str, i, i)]], Len(str))

\* n copies of the byte c.
Repeat(c, n) == AsString([i \in 1..n |-> c], n)

Min(S) == CHOOSE x \in S : \A y \in S : x <= y

\* An optional value: absent, or holding one value.
None == <<>>
Some(x) == <<x>>

\* The element of a set of one element.  A value that is bound as the
\* element of a set is computed once, before it is used.
Only(S) == CHOOSE x \in S : TRUE

(***************************************************************************)
(* for (char c : in) body -- the bytes of s[lo..hi] are visited first to   *)
(* last and body is applied to the accumulated state and each byte.  The   *)
(* range is halved so that the visit of a long string nests only           *)
(* logarithmically deep; left is the state after the left half.            *)
(***************************************************************************)
RECURSIVE ForEach(_, _, _, _, _)
ForEach(body(_, _), acc, s, lo, hi) ==
  IF lo > hi THEN acc
  ELSE IF lo = hi THEN body(acc, s[lo])
  ELSE LET mid == (lo + hi) \div 2
       IN  Only({ ForEach(body, left, s, mid + 1, hi) :
                    left \in {ForEach(body, acc, s, lo, mid)} })

\* std::string::npos
npos == -1

\* std::string::find(t, pos): the first position >= pos at which t occurs.
Find(s, t, pos) ==
  LET n  == Len(t)
      at == {p \in pos..(Len(s) - n) :
               n = 0 \/ (s[p + 1] = t[1] /\ \A i \in 2..n : s[p + i] = t[i])}
  IN  IF at = {} THEN npos ELSE Min(at)

Contains(s, t) == Find(s, t, 0) # npos

(***************************************************************************)
(* Sanitizer                                                               *)
(***************************************************************************)
\* Variant: the lower bound of the printable range is missing.
isAsciiPrintable_NoLowerBound(c) == c <= 126

isAsciiPrintable(c) == c >= 32 /\ c <= 126

stripControlKeeps(c) == isAsciiPrintable(c) \/ c = 10 \/ c = 9

\* Variant: out is a static buffer that is never cleared, so it still holds
\* the bytes kept for the prompts of the earlier invocations.
RECURSIVE keptSoFar(_)
keptSoFar(k) ==
  IF k = 0 THEN <<>>
  ELSE keptSoFar(k - 1) \o SelectSeq(log[k].req.prompt, stripControlKeeps)

stripControl_StaticBuffer(in) ==
  keptSoFar(Len(log)) \o SelectSeq(in, stripControlKeeps)

\* Variant: out is a static buffer shared by all threads and never cleared,
\* so it also holds the bytes the waiting invocations have kept.
RECURSIVE keptByThreads(_)
keptByThreads(k) ==
  IF k = 0 THEN <<>> ELSE keptByThreads(k - 1) \o threads[k].step1

stripControl_SharedBuffer(in) ==
  keptByThreads(Len(threads)) \o SelectSeq(in, stripControlKeeps)

stripControl(in) == SelectSeq(in, stripControlKeeps)

\* Variant: the flag is flipped by every whitespace byte, so every second
\* byte of a run is written.
collapseWhitespaceBody_EverySecond(st, c) ==
  IF c = 32 \/ c = 9 \/ c = 10 \/ c = 13
  THEN IF ~st.space
       THEN [out |-> Append(st.out, 32), space |-> TRUE]
       ELSE [out |-> st.out, space |-> FALSE]
  ELSE [out |-> Append(st.out, c), space |-> FALSE]

\* Variant: the flag is never set, so every whitespace byte is written as a
\* space.
collapseWhitespaceBody_NoFlag(st, c) ==
  IF c = 32 \/ c = 9 \/ c = 10 \/ c = 13
  THEN [out |-> Append(st.out, 32), space |-> FALSE]
  ELSE [out |-> Append(st.out, c), space |-> FALSE]

collapseWhitespaceBody(st, c) ==
  IF c = 32 \/ c = 9 \/ c = 10 \/ c = 13
  THEN IF ~st.space
       THEN [out |-> Append(st.out, 32), space |-> TRUE]
       ELSE st
  ELSE [out |-> Append(st.out, c), space |-> FALSE]

\* Variant: the trailing space is not removed.
collapseWhitespace_NoTrim(in) ==
  ForEach(collapseWhitespaceBody, [out |-> <<>>, space |-> FALSE],
          in, 1, Len(in)).out

collapseWhitespace(in) ==
  Only({ IF out # <<>> /\ out[Len(out)] = 32
         THEN SubSeq(out, 1, Len(out) - 1)
         ELSE out :
           out \in {ForEach(collapseWhitespaceBody,
                            [out |-> <<>>, space |-> FALSE], in, 1, Len(in)).out} })

\* Variant: letters keep their case.
toLowerASCII_Unchanged(in) == in

toLowerASCII(in) ==
  AsString([i \in 1..Len(in) |->
              IF in[i] >= 65 /\ in[i] <= 90 THEN in[i] - 65 + 97 ELSE in[i]],
           Len(in))

\* Variant: "porn" is listed before "nude".
kBlockList_PornFirst ==
  << Bytes("nsfw"), Bytes("porn"), Bytes("nude"), Bytes("nudity"),
     Bytes("explicit"), Bytes("sexual"), Bytes("erotic") >>

kBlockList ==
  << Bytes("nsfw"), Bytes("nude"), Bytes("nudity"), Bytes("porn"),
     Bytes("explicit"), Bytes("sexual"), Bytes("erotic") >>

\* Variant: the matched span is replaced by a single '*'.
maskSpan_OneStar(st, pos, n) ==
  [out   |-> SubSeq(st.out, 1, pos) \o <<42>>
             \o SubSeq(st.out, pos + n + 1, Len(st.out)),
   lower |-> SubSeq(st.lower, 1, pos) \o <<42>>
             \o SubSeq(st.lower, pos + n + 1, Len(st.lower))]

\* Variant: the matched span is erased instead of overwritten.
maskSpan_Erase(st, pos, n) ==
  [out   |-> SubSeq(st.out, 1, pos) \o SubSeq(st.out, pos + n + 1, Len(st.out)),
   lower |-> SubSeq(st.lower, 1, pos) \o Repeat(42, n)
             \o SubSeq(st.lower, pos + n + 1, Len(st.lower))]

\* The inner for loop of stripNSFWMarkers: '*' over t.size() bytes from pos,
\* in out and in lower alike.
maskSpan(st, pos, n) ==
  LET hit(i) == i - 1 >= pos /\ i - 1 < pos + n
  IN  [out   |-> AsString([i \in 1..Len(st.out) |->
                              IF hit(i) THEN 42 ELSE st.out[i]], Len(st.out)),
       lower |-> AsString([i \in 1..Len(st.lower) |->
                              IF hit(i) /\ i <= Len(st.out) THEN 42 ELSE st.lower[i]],
                          Len(st.lower))]

\* The while (true) loop of stripNSFWMarkers for one token t.
RECURSIVE maskToken(_, _, _)
maskToken(st, t, pos) ==
  Only({ IF found = npos THEN cur
         ELSE maskToken(maskSpan(cur, found, Len(t)), t, found + Len(t)) :
           <<cur, found>> \in {<<now, Find(now.lower, t, pos)>> : now \in {st}} })

\* The for loop over kBlockList, from the k-th token on.
RECURSIVE maskTokensFrom(_, _, _)
maskTokensFrom(st, list, k) ==
  IF k > Len(list) THEN st
  ELSE maskTokensFrom(maskToken(st, list[k], 0), list, k + 1)

stripNSFWMarkers(in) ==
  maskTokensFrom([out |-> in, lower |-> toLowerASCII(in)], kBlockList, 1).out

kMaxPromptBytes == 8000

\* Variant: the length is never cut.
truncatePrompt_NoCut(s) == s

truncatePrompt(s) ==
  IF Len(s) > kMaxPromptBytes THEN SubSeq(s, 1, kMaxPromptBytes) ELSE s

(***************************************************************************)
(* Classifier bank.  An enum value is written as the name of its           *)
(* enumerator.                                                             *)
(***************************************************************************)
\* Variant: the wide rule is tried before the vertical rule.
guessAspectFromText_WideFirst(lower) ==
  IF Contains(lower, Bytes("cinematic")) \/ Contains(lower, Bytes("wide"))
     \/ Contains(lower, Bytes("16:9")) \/ Contains(lower, Bytes("21:9"))
  THEN IF Contains(lower, Bytes("21:9")) THEN "Ratio_21_9" ELSE "Ratio_16_9"
  ELSE IF Contains(lower, Bytes("vertical")) \/ Contains(lower, Bytes("portrait"))
          \/ Contains(lower, Bytes("9:16"))
  THEN "Ratio_9_16"
  ELSE IF Contains(lower, Bytes("4:3")) THEN "Ratio_4_3"
  ELSE IF Contains(lower, Bytes("3:4")) THEN "Ratio_3_4"
  ELSE "Ratio_1_1"

\* Variant: the wide rule never looks for "21:9" again.
guessAspectFromText_Never21(lower) ==
  IF Contains(lower, Bytes("vertical")) \/ Contains(lower, Bytes("portrait"))
     \/ Contains(lower, Bytes("9:16"))
  THEN "Ratio_9_16"
  ELSE IF Contains(lower, Bytes("cinematic")) \/ Contains(lower, Bytes("wide"))
          \/ Contains(lower, Bytes("16:9")) \/ Contains(lower, Bytes("21:9"))
  THEN "Ratio_16_9"
  ELSE IF Contains(lower, Bytes("4:3")) THEN "Ratio_4_3"
  ELSE IF Contains(lower, Bytes("3:4")) THEN "Ratio_3_4"
  ELSE "Ratio_1_1"

guessAspectFromText(lower) ==
  IF Contains(lower, Bytes("vertical")) \/ Contains(lower, Bytes("portrait"))
     \/ Contains(lower, Bytes("9:16"))
  THEN "Ratio_9_16"
  ELSE IF Contains(lower, Bytes("cinematic")) \/ Contains(lower, Bytes("wide"))
          \/ Contains(lower, Bytes("16:9")) \/ Contains(lower, Bytes("21:9"))
  THEN IF Contains(lower, Bytes("21:9")) THEN "Ratio_21_9" ELSE "Ratio_16_9"
  ELSE IF Contains(lower, Bytes("4:3")) THEN "Ratio_4_3"
  ELSE IF Contains(lower, Bytes("3:4")) THEN "Ratio_3_4"
  ELSE "Ratio_1_1"

guessArtStyle(lower) ==
  IF Contains(lower, Bytes("photo")) \/ Contains(lower, Bytes("photoreal"))
     \/ Contains(lower, Bytes("realistic"))
  THEN "Photorealistic"
  ELSE IF Contains(lower, Bytes("anime")) \/ Contains(lower, Bytes("manga"))
  THEN "Anime"
  ELSE IF Contains(lower, Bytes("watercolor")) THEN "Watercolor"
  ELSE IF Contains(lower, Bytes("pixel")) THEN "PixelArt"
  ELSE IF Contains(lower, Bytes("line art")) \/ Contains(lower, Bytes("sketch"))
  THEN "LineArt"
  ELSE IF Contains(lower, Bytes("low poly")) \/ Contains(lower, Bytes("low-poly"))
  THEN "LowPoly"
  ELSE IF Contains(lower, Bytes("concept art")) \/ Contains(lower, Bytes("key art"))
  THEN "ConceptArt"
  ELSE IF Contains(lower, Bytes("painting"))
          \/ Contains(lower, Bytes("digital painting"))
  THEN "DigitalPainting"
  ELSE "Unspecified"

\* Variant: the value returned when no rule matches is Soft.
guessLighting_SoftDefault(lower) ==
  IF Contains(lower, Bytes("soft light")) \/ Contains(lower, Bytes("soft lighting"))
  THEN "Soft"
  ELSE IF Contains(lower, Bytes("dramatic"))
          \/ Contains(lower, Bytes("cinematic light"))
  THEN "Dramatic"
  ELSE IF Contains(lower, Bytes("studio")) \/ Contains(lower, Bytes("three-point"))
  THEN "Studio"
  ELSE IF Contains(lower, Bytes("hard light")) THEN "Hard"
  ELSE "Soft"

guessLighting(lower) ==
  IF Contains(lower, Bytes("soft light")) \/ Contains(lower, Bytes("soft lighting"))
  THEN "Soft"
  ELSE IF Contains(lower, Bytes("dramatic"))
          \/ Contains(lower, Bytes("cinematic light"))
  THEN "Dramatic"
  ELSE IF Contains(lower, Bytes("studio")) \/ Contains(lower, Bytes("three-point"))
  THEN "Studio"
  ELSE IF Contains(lower, Bytes("hard light")) THEN "Hard"
  ELSE "Auto"

guessColorTone(lower) ==
  IF Contains(lower, Bytes("teal and orange")) \/ Contains(lower, Bytes("warm"))
     \/ Contains(lower, Bytes("sunset"))
  THEN "Warm"
  ELSE IF Contains(lower, Bytes("cool")) \/ Contains(lower, Bytes("blueish"))
  THEN "Cool"
  ELSE IF Contains(lower, Bytes("pastel")) THEN "Pastel"
  ELSE IF Contains(lower, Bytes("high contrast")) \/ Contains(lower, Bytes("noir"))
  THEN "HighContrast"
  ELSE "Neutral"

guessCameraAngle(lower) ==
  IF Contains(lower, Bytes("top-down")) \/ Contains(lower, Bytes("top down"))
     \/ Contains(lower, Bytes("bird's-eye"))
  THEN "TopDown"
  ELSE IF Contains(lower, Bytes("close-up")) \/ Contains(lower, Bytes("close up"))
          \/ Contains(lower, Bytes("portrait shot"))
  THEN "CloseUp"
  ELSE IF Contains(lower, Bytes("wide shot")) \/ Contains(lower, Bytes("wide angle"))
  THEN "WideShot"
  ELSE IF Contains(lower, Bytes("low angle")) THEN "LowAngle"
  ELSE IF Contains(lower, Bytes("high angle")) THEN "HighAngle"
  ELSE IF Contains(lower, Bytes("isometric")) THEN "Isometric"
  ELSE "EyeLevel"

\* Variant: the rule for "symmetric" is tried first.
guessComposition_SymmetricFirst(lower) ==
  IF Contains(lower, Bytes("symmetric")) THEN "Symmetric"
  ELSE IF Contains(lower, Bytes("rule of thirds")) THEN "RuleOfThirds"
  ELSE IF Contains(lower, Bytes("centered")) \/ Contains(lower, Bytes("symmetrical"))
          \/ Contains(lower, Bytes("symmetry"))
  THEN "Centered"
  ELSE IF Contains(lower, Bytes("golden ratio")) THEN "GoldenRatio"
  ELSE IF Contains(lower, Bytes("leading lines")) THEN "LeadingLines"
  ELSE "None"

guessComposition(lower) ==
  IF Contains(lower, Bytes("rule of thirds")) THEN "RuleOfThirds"
  ELSE IF Contains(lower, Bytes("centered")) \/ Contains(lower, Bytes("symmetrical"))
          \/ Contains(lower, Bytes("symmetry"))
  THEN "Centered"
  ELSE IF Contains(lower, Bytes("golden ratio")) THEN "GoldenRatio"
  ELSE IF Contains(lower, Bytes("leading lines")) THEN "LeadingLines"
  ELSE IF Contains(lower, Bytes("symmetric")) THEN "Symmetric"
  ELSE "None"

\* Variant: ':' separates tokens too.
splitBody_ColonSeparates(st, c) ==
  IF c = 32 \/ c = 44 \/ c = 46 \/ c = 33 \/ c = 63 \/ c = 58
  THEN IF st.cur # <<>>
       THEN [tokens |-> Append(st.tokens, st.cur), cur |-> <<>>]
       ELSE st
  ELSE [tokens |-> st.tokens, cur |-> Append(st.cur, c)]

\* The splitting loop of guessSubjectName: cur collects the current token.
splitBody(st, c) ==
  IF c = 32 \/ c = 44 \/ c = 46 \/ c = 33 \/ c = 63
  THEN IF st.cur # <<>>
       THEN [tokens |-> Append(st.tokens, st.cur), cur |-> <<>>]
       ELSE st
  ELSE [tokens |-> st.tokens, cur |-> Append(st.cur, c)]

stopWords ==
  << Bytes("a"), Bytes("an"), Bytes("the"), Bytes("of"), Bytes("in"),
     Bytes("on"), Bytes("with"), Bytes("at"), Bytes("to"), Bytes("for") >>

\* Variant: when every token is a stop word the first token is returned.
RECURSIVE lastMainToken_FrontWhenAllStop(_, _)
lastMainToken_FrontWhenAllStop(tokens, i) ==
  IF i < 0 THEN tokens[1]
  ELSE IF ~(\E k \in 1..Len(stopWords) : tokens[i + 1] = stopWords[k])
  THEN tokens[i + 1]
  ELSE lastMainToken_FrontWhenAllStop(tokens, i - 1)

\* The backward loop of guessSubjectName, from index i (0-based) down.
RECURSIVE lastMainToken(_, _)
lastMainToken(tokens, i) ==
  IF i < 0 THEN tokens[Len(tokens)]
  ELSE IF ~(\E k \in 1..Len(stopWords) : tokens[i + 1] = stopWords[k])
  THEN tokens[i + 1]
  ELSE lastMainToken(tokens, i - 1)

\* The tokens of the lower-cased prompt.
splitTokens(lower) ==
  Only({ IF st.cur # <<>> THEN Append(st.tokens, st.cur) ELSE st.tokens :
           st \in {ForEach(splitBody, [tokens |-> <<>>, cur |-> <<>>],
                           lower, 1, Len(lower))} })

guessSubjectName(prompt) ==
  Only({ IF tokens = <<>> THEN Bytes("subject")
         ELSE lastMainToken(tokens, Len(tokens) - 1) :
           tokens \in {splitTokens(lower) : lower \in {toLowerASCII(prompt)}} })

guessEnvironment(lower) ==
  IF Contains(lower, Bytes("forest")) THEN Bytes("forest")
  ELSE IF Contains(lower, Bytes("city")) THEN Bytes("city")
  ELSE IF Contains(lower, Bytes("space")) \/ Contains(lower, Bytes("galaxy"))
          \/ Contains(lower, Bytes("nebula"))
  THEN Bytes("space")
  ELSE IF Contains(lower, Bytes("beach")) \/ Contains(lower, Bytes("ocean"))
          \/ Contains(lower, Bytes("sea"))
  THEN Bytes("seaside")
  ELSE <<>>

guessTimeOfDay(lower) ==
  IF Contains(lower, Bytes("sunset")) THEN Bytes("sunset")
  ELSE IF Contains(lower, Bytes("night")) THEN Bytes("night")
  ELSE IF Contains(lower, Bytes("dawn")) \/ Contains(lower, Bytes("sunrise"))
  THEN Bytes("dawn")
  ELSE <<>>

\* Variant: the fog / mist rule is missing.
guessWeather_FogUnmatched(lower) ==
  IF Contains(lower, Bytes("rain")) THEN Bytes("rainy")
  ELSE IF Contains(lower, Bytes("snow")) THEN Bytes("snowy")
  ELSE <<>>

guessWeather(lower) ==
  IF Contains(lower, Bytes("rain")) THEN Bytes("rainy")
  ELSE IF Contains(lower, Bytes("fog")) \/ Contains(lower, Bytes("mist"))
  THEN Bytes("foggy")
  ELSE IF Contains(lower, Bytes("snow")) THEN Bytes("snowy")
  ELSE <<>>

(***************************************************************************)
(* Scene plan assembler                                                    *)
(***************************************************************************)
kFocalLengthMM == 35

\* VCScenePlan plan{}: every member value-initialized.
emptyScenePlan ==
  [corePrompt        |-> <<>>,
   primarySubject    |-> [name |-> <<>>, attributes |-> <<>>, positionHint |-> <<>>],
   secondarySubjects |-> <<>>,
   background        |-> [environment |-> <<>>, timeOfDay |-> <<>>, weather |-> <<>>],
   colorLighting     |-> [colorTone |-> "Neutral", lighting |-> "Auto",
                          paletteHint |-> <<>>],
   camera            |-> [angle |-> "EyeLevel", focalLengthMM |-> 0,
                          depthOfField |-> FALSE],
   composition       |-> [rule |-> "None", allowCropping |-> FALSE,
                          centerMainSubject |-> FALSE],
   artStyle          |-> [style |-> "Unspecified", brushDetail |-> "Auto",
                          eraHint |-> <<>>],
   negatives         |-> [visualArtifacts |-> <<>>, contentExclusions |-> <<>>],
   aspectRatio       |-> "Ratio_1_1",
   mode              |-> "TextToImage",
   safety            |-> "Safe",
   quality           |-> "Draft"]

\* Variant: the depth of field is switched on for every angle.
cameraDepthOfField_Always(angle) == TRUE

\* plan.camera.depthOfField = (plan.camera.angle == VCCameraAngle::CloseUp);
cameraDepthOfField(angle) == angle = "CloseUp"

\* buildScenePlanFromPrompt from the statement after the sanitizer call up to
\* the last classifier rule: the three options, each classifier's result and
\* the fixed fields written between the calls.  corePrompt is what
\* sanitizePromptForVision returned; negatives is not written yet.
classifyFacets(corePrompt, igMode, safetyProfile, qualityPreset) ==
  Only({
      [corePrompt        |-> corePrompt,
       primarySubject    |-> [name |-> guessSubjectName(corePrompt),
                              attributes |-> <<>>,
                              positionHint |-> Bytes("center")],
       secondarySubjects |-> <<>>,
       background        |-> [environment |-> guessEnvironment(lower),
                              timeOfDay |-> guessTimeOfDay(lower),
                              weather |-> guessWeather(lower)],
       colorLighting     |-> [colorTone |-> guessColorTone(lower),
                              lighting |-> guessLighting(lower),
                              paletteHint |-> <<>>],
       camera            |-> [angle |-> angle,
                              focalLengthMM |-> kFocalLengthMM,
                              depthOfField |-> cameraDepthOfField(angle)],
       composition       |-> [rule |-> guessComposition(lower),
                              allowCropping |-> TRUE,
                              centerMainSubject |-> TRUE],
       artStyle          |-> [style |-> guessArtStyle(lower),
                              brushDetail |-> "Normal",
                              eraHint |-> <<>>],
       negatives         |-> emptyScenePlan.negatives,
       aspectRatio       |-> guessAspectFromText(lower),
       mode              |-> igMode,
       safety            |-> safetyProfile,
       quality           |-> qualityPreset] :
    <<lower, angle>> \in {<<low, guessCameraAngle(low)>> :
                             low \in {toLowerASCII(corePrompt)}} })

\* The last two assignments of buildScenePlanFromPrompt.
withNegatives(p) ==
  [p EXCEPT !.negatives =
     [visualArtifacts   |-> Bytes("blurry, extra limbs, distorted faces, text artifacts"),
      contentExclusions |-> Bytes("no gore, no real-world logos")]]

\* buildScenePlanFromPrompt from the statement after the sanitizer call on.
assembleScenePlan(corePrompt, igMode, safetyProfile, qualityPreset) ==
  withNegatives(classifyFacets(corePrompt, igMode, safetyProfile, qualityPreset))

(***************************************************************************)
(* Canonical serializer                                                    *)
(***************************************************************************)
\* Variant: the other bytes below 32 are copied instead of dropped.
jsonEscapeBody_KeepsControl(out, c) ==
  IF c = 34 THEN out \o Bytes("\\\"")
  ELSE IF c = 92 THEN out \o Bytes("\\\\")
  ELSE IF c = 10 THEN out \o Bytes("\\n")
  ELSE IF c = 13 THEN out \o Bytes("\\r")
  ELSE IF c = 9  THEN out \o Bytes("\\t")
  ELSE Append(out, c)

\* Variant: a backslash is copied as it is.
jsonEscapeBody_BackslashRaw(out, c) ==
  IF c = 34 THEN out \o Bytes("\\\"")
  ELSE IF c = 10 THEN out \o Bytes("\\n")
  ELSE IF c = 13 THEN out \o Bytes("\\r")
  ELSE IF c = 9  THEN out \o Bytes("\\t")
  ELSE IF c < 32 THEN out
  ELSE Append(out, c)

jsonEscapeBody(out, c) ==
  IF c = 34 THEN out \o Bytes("\\\"")
  ELSE IF c = 92 THEN out \o Bytes("\\\\")
  ELSE IF c = 10 THEN out \o Bytes("\\n")
  ELSE IF c = 13 THEN out \o Bytes("\\r")
  ELSE IF c = 9  THEN out \o Bytes("\\t")
  ELSE IF c < 32 THEN out
  ELSE Append(out, c)

jsonEscape(in) == ForEach(jsonEscapeBody, <<>>, in, 1, Len(in))

toStringAspectRatio(r) ==
  CASE r = "Ratio_1_1"  -> Bytes("1:1")
    [] r = "Ratio_16_9" -> Bytes("16:9")
    [] r = "Ratio_9_16" -> Bytes("9:16")
    [] r = "Ratio_4_3"  -> Bytes("4:3")
    [] r = "Ratio_3_4"  -> Bytes("3:4")
    [] r = "Ratio_21_9" -> Bytes("21:9")
    [] OTHER            -> Bytes("1:1")

toStringIGMode(m) ==
  CASE m = "TextToImage"  -> Bytes("text-to-image")
    [] m = "ImageToImage" -> Bytes("image-to-image")
    [] m = "Inpaint"      -> Bytes("inpaint")
    [] m = "Outpaint"     -> Bytes("outpaint")
    [] OTHER              -> Bytes("text-to-image")

toStringSafetyProfile(sp) ==
  CASE sp = "Safe"      -> Bytes("safe")
    [] sp = "AllowNSFW" -> Bytes("allow-nsfw")
    [] OTHER            -> Bytes("safe")

toStringQualityPreset(q) ==
  CASE q = "Draft"    -> Bytes("draft")
    [] q = "Standard" -> Bytes("standard")
    [] q = "High"     -> Bytes("high")
    [] q = "Ultra"    -> Bytes("ultra")
    [] OTHER          -> Bytes("standard")

toStringColorTone(t) ==
  CASE t = "Neutral"      -> Bytes("neutral")
    [] t = "Warm"         -> Bytes("warm")
    [] t = "Cool"         -> Bytes("cool")
    [] t = "HighContrast" -> Bytes("high-contrast")
    [] t = "Pastel"       -> Bytes("pastel")
    [] OTHER              -> Bytes("neutral")

toStringLighting(l) ==
  CASE l = "Auto"     -> Bytes("auto")
    [] l = "Soft"     -> Bytes("soft")
    [] l = "Hard"     -> Bytes("hard")
    [] l = "Dramatic" -> Bytes("dramatic")
    [] l = "Studio"   -> Bytes("studio")
    [] OTHER          -> Bytes("auto")

toStringCameraAngle(a) ==
  CASE a = "EyeLevel"  -> Bytes("eye-level")
    [] a = "LowAngle"  -> Bytes("low-angle")
    [] a = "HighAngle" -> Bytes("high-angle")
    [] a = "TopDown"   -> Bytes("top-down")
    [] a = "Isometric" -> Bytes("isometric")
    [] a = "CloseUp"   -> Bytes("close-up")
    [] a = "WideShot"  -> Bytes("wide-shot")
    [] OTHER           -> Bytes("eye-level")

toStringCompositionRule(r) ==
  CASE r = "None"         -> Bytes("none")
    [] r = "RuleOfThirds" -> Bytes("rule-of-thirds")
    [] r = "Centered"     -> Bytes("centered")
    [] r = "GoldenRatio"  -> Bytes("golden-ratio")
    [] r = "Symmetric"    -> Bytes("symmetric")
    [] r = "LeadingLines" -> Bytes("leading-lines")
    [] OTHER              -> Bytes("none")

toStringArtStyle(a) ==
  CASE a = "Unspecified"     -> Bytes("unspecified")
    [] a = "Photorealistic"  -> Bytes("photorealistic")
    [] a = "DigitalPainting" -> Bytes("digital-painting")
    [] a = "Watercolor"      -> Bytes("watercolor")
    [] a = "Anime"           -> Bytes("anime")
    [] a = "LineArt"         -> Bytes("line-art")
    [] a = "LowPoly"         -> Bytes("low-poly")
    [] a = "PixelArt"        -> Bytes("pixel-art")
    [] a = "ConceptArt"      -> Bytes("concept-art")
    [] OTHER                 -> Bytes("unspecified")

toStringBrushDetail(d) ==
  CASE d = "Auto"    -> Bytes("auto")
    [] d = "Minimal" -> Bytes("minimal")
    [] d = "Normal"  -> Bytes("normal")
    [] d = "High"    -> Bytes("high")
    [] d = "Hyper"   -> Bytes("hyper")
    [] OTHER         -> Bytes("normal")

\* The decimal digits of a natural number.
RECURSIVE decimalDigits(_)
decimalDigits(n) ==
  IF n < 10 THEN <<48 + n>> ELSE Append(decimalDigits(n \div 10), 48 + (n % 10))

\* std::to_string(float) prints with "%f": six digits after the point.  The
\* focal length is a whole number of millimetres.
toStringFloat(v) == decimalDigits(v) \o Bytes(".000000")

toStringBool(b) == IF b THEN Bytes("true") ELSE Bytes("false")

serializeSubject(sd) ==
  Bytes("{")
  \o Bytes("\"name\":\"") \o jsonEscape(sd.name) \o Bytes("\",")
  \o Bytes("\"attributes\":\"") \o jsonEscape(sd.attributes) \o Bytes("\",")
  \o Bytes("\"position_hint\":\"") \o jsonEscape(sd.positionHint) \o Bytes("\"")
  \o Bytes("}")

\* Variant: a comma follows every element, the last one too.
RECURSIVE serializeSecondary_TrailingComma(_, _)
serializeSecondary_TrailingComma(subjects, i) ==
  IF i >= Len(subjects) THEN <<>>
  ELSE serializeSubject(subjects[i + 1])
       \o Bytes(",")
       \o serializeSecondary_TrailingComma(subjects, i + 1)

\* The loop over secondarySubjects, from index i (0-based) on.
RECURSIVE serializeSecondary(_, _)
serializeSecondary(subjects, i) ==
  IF i >= Len(subjects) THEN <<>>
  ELSE serializeSubject(subjects[i + 1])
       \o (IF i + 1 < Len(subjects) THEN Bytes(",") ELSE <<>>)
       \o serializeSecondary(subjects, i + 1)

serializeScenePlanToJSON(p) ==
  Bytes("{")
  \o Bytes("\"core_prompt\":\"") \o jsonEscape(p.corePrompt) \o Bytes("\",")
  \o Bytes("\"mode\":\"") \o toStringIGMode(p.mode) \o Bytes("\",")
  \o Bytes("\"safety_profile\":\"") \o toStringSafetyProfile(p.safety) \o Bytes("\",")
  \o Bytes("\"quality_preset\":\"") \o toStringQualityPreset(p.quality) \o Bytes("\",")
  \o Bytes("\"aspect_ratio\":\"") \o toStringAspectRatio(p.aspectRatio) \o Bytes("\",")
  \o Bytes("\"primary_subject\":") \o serializeSubject(p.primarySubject) \o Bytes(",")
  \o Bytes("\"secondary_subjects\":[")
  \o serializeSecondary(p.secondarySubjects, 0)
  \o Bytes("],")
  \o Bytes("\"background\":{")
  \o Bytes("\"environment\":\"") \o jsonEscape(p.background.environment) \o Bytes("\",")
  \o Bytes("\"time_of_day\":\"") \o jsonEscape(p.background.timeOfDay) \o Bytes("\",")
  \o Bytes("\"weather\":\"") \o jsonEscape(p.background.weather) \o Bytes("\"")
  \o Bytes("},")
  \o Bytes("\"color_lighting\":{")
  \o Bytes("\"color_tone\":\"") \o toStringColorTone(p.colorLighting.colorTone)
  \o Bytes("\",")
  \o Bytes("\"lighting\":\"") \o toStringLighting(p.colorLighting.lighting)
  \o Bytes("\",")
  \o Bytes("\"palette_hint\":\"") \o jsonEscape(p.colorLighting.paletteHint)
  \o Bytes("\"")
  \o Bytes("},")
  \o Bytes("\"camera\":{")
  \o Bytes("\"angle\":\"") \o toStringCameraAngle(p.camera.angle) \o Bytes("\",")
  \o Bytes("\"focal_length_mm\":") \o toStringFloat(p.camera.focalLengthMM)
  \o Bytes(",")
  \o Bytes("\"depth_of_field\":") \o toStringBool(p.camera.depthOfField)
  \o Bytes("},")
  \o Bytes("\"composition\":{")
  \o Bytes("\"rule\":\"") \o toStringCompositionRule(p.composition.rule)
  \o Bytes("\",")
  \o Bytes("\"allow_cropping\":") \o toStringBool(p.composition.allowCropping)
  \o Bytes(",")
  \o Bytes("\"center_main_subject\":")
  \o toStringBool(p.composition.centerMainSubject)
  \o Bytes("},")
  \o Bytes("\"art_style\":{")
  \o Bytes("\"style\":\"") \o toStringArtStyle(p.artStyle.style) \o Bytes("\",")
  \o Bytes("\"brush_detail\":\"") \o toStringBrushDetail(p.artStyle.brushDetail)
  \o Bytes("\",")
  \o Bytes("\"era_hint\":\"") \o jsonEscape(p.artStyle.eraHint) \o Bytes("\"")
  \o Bytes("},")
  \o Bytes("\"negative_constraints\":{")
  \o Bytes("\"visual_artifacts\":\"") \o jsonEscape(p.negatives.visualArtifacts)
  \o Bytes("\",")
  \o Bytes("\"content_exclusions\":\"")
  \o jsonEscape(p.negatives.contentExclusions) \o Bytes("\"")
  \o Bytes("}")
  \o Bytes("}")

(***************************************************************************)
(* Requests.  A caller hands BuildSemanticIGSpec a prompt and three enum   *)
(* values.                                                                 *)
(***************************************************************************)
VCColorTone       == {"Neutral", "Warm", "Cool", "HighContrast", "Pastel"}
VCLighting        == {"Auto", "Soft", "Hard", "Dramatic", "Studio"}
VCCameraAngle     == {"EyeLevel", "LowAngle", "HighAngle", "TopDown", "Isometric",
                      "CloseUp", "WideShot"}
VCArtStyle        == {"Unspecified", "Photorealistic", "DigitalPainting",
                      "Watercolor", "Anime", "LineArt", "LowPoly", "PixelArt",
                      "ConceptArt"}
VCCompositionRule == {"None", "RuleOfThirds", "Centered", "GoldenRatio",
                      "Symmetric", "LeadingLines"}
VCAspectRatio     == {"Ratio_1_1", "Ratio_16_9", "Ratio_9_16", "Ratio_4_3",
                      "Ratio_3_4", "Ratio_21_9"}
VCBrushDetail     == {"Auto", "Minimal", "Normal", "High", "Hyper"}
VCIGMode        == {"TextToImage", "ImageToImage", "Inpaint", "Outpaint"}
VCSafetyProfile == {"Safe", "AllowNSFW"}
VCQualityPreset == {"Draft", "Standard", "High", "Ultra"}

Request(prompt, m, sp, q) ==
  [prompt |-> prompt, mode |-> m, safety |-> sp, quality |-> q]

ScenarioA == Bytes("A cinematic portrait, 16:9, soft lighting, rule of thirds")
ScenarioD ==
  Bytes("close-up of a dragon in a foggy forest at night, anime style, 9:16")

\* Bounds of the model.
MaxCalls == 3      \* invocations in one behaviour of Spec
MaxFrags == 3      \* fragments concatenated into one prompt of SpecSingle
MaxOver  == 1      \* bytes by which a long prompt exceeds the cap
MaxSubjects == 2   \* secondary subjects of a plan handed to the serializer
MaxEscLen == 3     \* bytes of a string built from the bytes jsonEscape tells apart
MaxTextLen == 3    \* bytes of a string handed to a sanitizer function on its own
MaxThreads == 2    \* threads that call BuildSemanticIGSpec at the same time

\* Prompts of the repeated-invocation specification.
Requests ==
  { Request(<<>>, "TextToImage", "Safe", "High"),
    Request(<<1, 2>>, "TextToImage", "Safe", "High"),
    Request(Bytes("   "), "Inpaint", "Safe", "Draft"),
    Request(ScenarioA, "TextToImage", "Safe", "High"),
    Request(ScenarioD, "TextToImage", "Safe", "High"),
    Request(Bytes("a NUDE cat"), "TextToImage", "Safe", "High"),
    Request(Bytes("a NUDE cat"), "TextToImage", "AllowNSFW", "High"),
    Request(Bytes("a NUDE cat"), "Outpaint", "Safe", "Ultra"),
    Request(Bytes("pornude"), "ImageToImage", "AllowNSFW", "Standard"),
    Request(<<9>> \o Bytes("say \"hi\" \\") \o <<1, 13, 10, 200>> \o Bytes(" to  the sea "),
            "TextToImage", "Safe", "High") }

\* Fragments that build blocklist terms, overlapping terms, mixed case,
\* whitespace and control bytes when concatenated.
Fragments ==
  { Bytes("por"), Bytes("n"), Bytes("N"), Bytes("ude"), Bytes("sfw"),
    Bytes("udity"), Bytes("e"), Bytes("xplicit"), Bytes(" "), <<1>> }

RECURSIVE FragmentStrings(_)
FragmentStrings(n) ==
  IF n = 0 THEN {<<>>}
  ELSE LET shorter == FragmentStrings(n - 1)
       IN  shorter \cup {s \o f : s \in shorter, f \in Fragments}

\* Prompts whose sanitized length is at the cap or just above it: the cut
\* falls behind the last byte, behind a space, or inside a masked term.
LongPrompts ==
  { Repeat(120, kMaxPromptBytes - 2 + d) \o Bytes(" b") : d \in 0..MaxOver }
  \cup { Repeat(120, kMaxPromptBytes - 3) \o Bytes(" nude") }

CuratedPrompts ==
  { ScenarioA, ScenarioD, Bytes("a NUDE cat"), Bytes("a red ball"),
    Bytes("   "), <<9, 13, 10, 32>>, <<1, 200, 127>>, <<32, 1, 9>>,
    Bytes("a") \o <<1, 9, 200>> \o Bytes("b") \o <<13, 10>> \o Bytes("Erotic  sexual"),
    Bytes("say \"hi\" \\ there") }

SinglePrompts == FragmentStrings(MaxFrags) \cup CuratedPrompts \cup LongPrompts

SingleRequests ==
  {Request(pr, "TextToImage", "Safe", "High") : pr \in SinglePrompts}

\* Prompts of the classifier specification.  The words each classifier looks
\* for, one set per facet:
AspectWords ==
  { Bytes("vertical"), Bytes("portrait"), Bytes("9:16"), Bytes("cinematic"),
    Bytes("wide"), Bytes("16:9"), Bytes("21:9"), Bytes("4:3"), Bytes("3:4") }

ArtStyleWords ==
  { Bytes("photo"), Bytes("photoreal"), Bytes("realistic"), Bytes("anime"),
    Bytes("manga"), Bytes("watercolor"), Bytes("pixel"), Bytes("line art"),
    Bytes("sketch"), Bytes("low poly"), Bytes("low-poly"), Bytes("concept art"),
    Bytes("key art"), Bytes("painting"), Bytes("digital painting") }

LightingWords ==
  { Bytes("soft light"), Bytes("soft lighting"), Bytes("dramatic"),
    Bytes("cinematic light"), Bytes("studio"), Bytes("three-point"),
    Bytes("hard light") }

ColorToneWords ==
  { Bytes("teal and orange"), Bytes("warm"), Bytes("sunset"), Bytes("cool"),
    Bytes("blueish"), Bytes("pastel"), Bytes("high contrast"), Bytes("noir") }

CameraAngleWords ==
  { Bytes("top-down"), Bytes("top down"), Bytes("bird's-eye"), Bytes("close-up"),
    Bytes("close up"), Bytes("portrait shot"), Bytes("wide shot"),
    Bytes("wide angle"), Bytes("low angle"), Bytes("high angle"),
    Bytes("isometric") }

CompositionWords ==
  { Bytes("rule of thirds"), Bytes("centered"), Bytes("symmetrical"),
    Bytes("symmetry"), Bytes("golden ratio"), Bytes("leading lines"),
    Bytes("symmetric") }

EnvironmentWords ==
  { Bytes("forest"), Bytes("city"), Bytes("space"), Bytes("galaxy"),
    Bytes("nebula"), Bytes("beach"), Bytes("ocean"), Bytes("sea") }

TimeOfDayWords == { Bytes("sunset"), Bytes("night"), Bytes("dawn"), Bytes("sunrise") }

WeatherWords == { Bytes("rain"), Bytes("fog"), Bytes("mist"), Bytes("snow") }

\* One word of a facet, or two of them in either order.
OneOrTwo(words) == words \cup {a \o Bytes(" ") \o b : a, b \in words}

\* Words in capitals and words that run into each other.
MixedPrompts ==
  { Bytes("PORTRAIT 21:9"), Bytes("Wide 4:3"), Bytes("21:9:16"), Bytes("16:9:16"),
    Bytes("4:3:4"), Bytes("3:4:3"), Bytes("cinematic lighting, Close-Up"),
    Bytes("a photo of the sea at sunset in the rain"),
    Bytes("symmetrical isometric pixel city"), Bytes("Seasonal misty nightfall") }

\* Prompts none of the classifiers has a word for.
PlainPrompts ==
  { Bytes("a red ball"), Bytes("dragon"), Bytes("x"), Bytes("a **** cat"),
    Bytes("an old wizard with a hat"), Bytes("16:10 tall"), Bytes("closeup fogless") }

\* Prompts made of tokens, stop words and separators.
SubjectWords == { <<>>, Bytes("a"), Bytes("The"), Bytes("Cat"), Bytes("9:16") }

SubjectSeparators ==
  { Bytes(" "), Bytes(","), Bytes("."), Bytes("!"), Bytes("?"), Bytes(", ") }

SubjectPrompts ==
  { w1 \o s1 \o w2 \o s2 \o w3 :
      w1, w2, w3 \in SubjectWords, s1 \in SubjectSeparators,
      s2 \in {Bytes(" "), Bytes("?")} }

ClassifyPrompts ==
  OneOrTwo(AspectWords) \cup OneOrTwo(ArtStyleWords) \cup OneOrTwo(LightingWords)
  \cup OneOrTwo(ColorToneWords) \cup OneOrTwo(CameraAngleWords)
  \cup OneOrTwo(CompositionWords) \cup OneOrTwo(EnvironmentWords)
  \cup OneOrTwo(TimeOfDayWords) \cup OneOrTwo(WeatherWords)
  \cup MixedPrompts \cup PlainPrompts \cup SubjectPrompts
  \cup {ScenarioA, ScenarioD}

ClassifyRequests ==
  {Request(pr, "ImageToImage", "AllowNSFW", "Standard") : pr \in ClassifyPrompts}

\* Plans of the serializer specification: serializeScenePlanToJSON takes any
\* VCScenePlan, so its strings hold any bytes and secondarySubjects any
\* number of elements.
EscBytes == {1, 9, 10, 13, 34, 92, 110}

RECURSIVE StringsUpTo(_)
StringsUpTo(n) ==
  IF n = 0 THEN {<<>>}
  ELSE LET shorter == StringsUpTo(n - 1)
       IN  shorter \cup {Append(str, c) : str \in shorter, c \in EscBytes}

SpecialStrings ==
  { <<0>>, <<31, 32, 127, 128, 200, 255>>, Bytes("say \"hi\"") \o <<10>>,
    Bytes("\",\"mode\":\"x"), Bytes("a\\"), Bytes("{[,:]}"),
    <<9, 13, 10, 8, 12, 27>> \o Bytes("\\t/") }

SubjectDescriptors ==
  { [name |-> n, attributes |-> a, positionHint |-> Bytes("left")] :
      n \in {Bytes("girl"), Bytes("a\"b")}, a \in {<<>>, <<92>>} }

RECURSIVE SubjectsUpTo(_)
SubjectsUpTo(n) ==
  IF n = 0 THEN {<<>>}
  ELSE LET shorter == SubjectsUpTo(n - 1)
       IN  shorter \cup {Append(ss, sd) : ss \in shorter, sd \in SubjectDescriptors}

BuiltPlans ==
  { assembleScenePlan(ScenarioA, "TextToImage", "Safe", "High"),
    assembleScenePlan(ScenarioD, "Inpaint", "AllowNSFW", "Draft"),
    assembleScenePlan(Bytes("top-down pixel city, noir, golden ratio"),
                      "Outpaint", "Safe", "Ultra") }

SerializerPlans ==
  { [p EXCEPT !.corePrompt = str] :
      p \in {assembleScenePlan(ScenarioD, "ImageToImage", "Safe", "Standard")},
      str \in StringsUpTo(MaxEscLen) \cup SpecialStrings }
  \cup { [p EXCEPT !.secondarySubjects = ss] :
           p \in BuiltPlans, ss \in SubjectsUpTo(MaxSubjects) }
  \cup { [p EXCEPT !.primarySubject.attributes = str,
                   !.background.environment = str,
                   !.colorLighting.paletteHint = str,
                   !.artStyle.eraHint = str,
                   !.negatives.contentExclusions = str] :
           p \in BuiltPlans, str \in SpecialStrings }

\* Strings handed to stripControl and collapseWhitespace on their own: a
\* control byte, the four whitespace bytes, a letter and a byte above 126.
TextBytes == {1, 9, 10, 13, 32, 97, 200}

RECURSIVE TextStringsUpTo(_)
TextStringsUpTo(n) ==
  IF n = 0 THEN {<<>>}
  ELSE LET shorter == TextStringsUpTo(n - 1)
       IN  shorter \cup {Append(str, c) : str \in shorter, c \in TextBytes}

TextStrings ==
  TextStringsUpTo(MaxTextLen)
  \cup { Bytes(" a  b ") \o <<9, 13, 10>> \o Bytes("c") \o <<10, 32>>,
         <<1, 32, 2, 32, 200, 9>> \o Bytes("x") \o <<127, 13>> }

\* Requests of the specification with fairness.
LiveRequests ==
  Requests
  \cup {Request(pr, "Inpaint", "Safe", "Ultra") : pr \in MixedPrompts \cup PlainPrompts}

\* Requests of the threads that run at the same time.
ThreadRequests ==
  { Request(<<>>, "TextToImage", "Safe", "High"),
    Request(<<1, 2>>, "Inpaint", "Safe", "Draft"),
    Request(Bytes("a NUDE cat"), "TextToImage", "AllowNSFW", "High"),
    Request(ScenarioA, "Outpaint", "Safe", "Ultra") }

NoRequest == Request(<<>>, "TextToImage", "Safe", "Draft")

\* Variant: the plan built so far is handed to the caller with the error.
Thrown_PartialPlan(what) ==
  [error |-> what, scene |-> Some(plan), jsonControl |-> None]

\* An exception leaves BuildSemanticIGSpec: the caller gets no value.
Thrown(what) == [error |-> what, scene |-> None, jsonControl |-> None]

\* return result;
Returned(res) ==
  [error |-> "none", scene |-> Some(res.scene), jsonControl |-> Some(res.jsonControl)]

\* No other thread, and no call of another component.
NothingBeside ==
  /\ threads = <<>>
  /\ tracer = [pc |-> "unused"]
  /\ preprocessor = [pc |-> "unused"]
  /\ captioner = [pc |-> "unused"]

Init ==
  /\ pc = "idle"
  /\ req = NoRequest
  /\ step1 = <<>> /\ step2 = <<>> /\ step3 = <<>>
  /\ plan = emptyScenePlan
  /\ result = None
  /\ ran = <<>>
  /\ ret = None
  /\ log = <<>>
  /\ NothingBeside

\* The invocation ends: its locals are destroyed, the caller has the outcome.
Finish(outcome) ==
  /\ pc' = "idle"
  /\ ret' = Some(outcome)
  /\ log' = Append(log, [req |-> req, out |-> outcome])
  /\ step1' = <<>> /\ step2' = <<>> /\ step3' = <<>>
  /\ plan' = emptyScenePlan
  /\ result' = None
  /\ UNCHANGED beside

\* BuildSemanticIGSpec is entered with r; buildScenePlanFromPrompt declares
\* plan{} and calls sanitizePromptForVision.
Enter(r) ==
  /\ pc = "idle"
  /\ pc' = "check_raw"
  /\ req' = r
  /\ ran' = <<>>
  /\ ret' = None
  /\ plan' = emptyScenePlan
  /\ result' = None
  /\ UNCHANGED <<step1, step2, step3, log, beside>>

Invoke == pc = "idle" /\ Len(log) < MaxCalls /\ \E r \in Requests : Enter(r)

InvokeSingle == pc = "idle" /\ log = <<>> /\ \E r \in SingleRequests : Enter(r)

InvokeClassify == pc = "idle" /\ log = <<>> /\ \E r \in ClassifyRequests : Enter(r)

InvokeLive == pc = "idle" /\ log = <<>> /\ \E r \in LiveRequests : Enter(r)

\* Variant: the test for an empty raw prompt is missing.
CheckRaw_NoEmptyTest ==
  /\ pc = "check_raw"
  /\ pc' = "strip_control"
  /\ UNCHANGED <<req, step1, step2, step3, plan, result, ran, ret, log, beside>>

\* if (raw.empty()) throw std::invalid_argument
CheckRaw ==
  /\ pc = "check_raw"
  /\ IF req.prompt = <<>>
     THEN Finish(Thrown("InvalidInput")) /\ UNCHANGED <<req, ran>>
     ELSE pc' = "strip_control"
          /\ UNCHANGED <<req, step1, step2, step3, plan, result, ran, ret, log, beside>>

StripControl ==
  /\ pc = "strip_control"
  /\ step1' = stripControl(req.prompt)
  /\ ran' = Append(ran, "strip_control")
  /\ pc' = "collapse_whitespace"
  /\ UNCHANGED <<req, step2, step3, plan, result, ret, log, beside>>

\* Variant: an empty result of the collapse aborts at once.
CollapseWhitespace_AbortsWhenEmpty ==
  /\ pc = "collapse_whitespace"
  /\ IF collapseWhitespace(step1) = <<>>
     THEN Finish(Thrown("SanitizationExhausted")) /\ UNCHANGED <<req, ran>>
     ELSE /\ step2' = collapseWhitespace(step1)
          /\ ran' = Append(ran, "collapse_whitespace")
          /\ pc' = "redaction"
          /\ UNCHANGED <<req, step1, step3, plan, result, ret, log, beside>>

CollapseWhitespace ==
  /\ pc = "collapse_whitespace"
  /\ step2' = collapseWhitespace(step1)
  /\ ran' = Append(ran, "collapse_whitespace")
  /\ pc' = "redaction"
  /\ UNCHANGED <<req, step1, step3, plan, result, ret, log, beside>>

\* Variant: the blocklist is not applied under the profile AllowNSFW.
StripNSFW_SkippedWhenAllowed ==
  /\ pc = "redaction"
  /\ step3' = IF req.safety = "AllowNSFW" THEN step2 ELSE stripNSFWMarkers(step2)
  /\ ran' = Append(ran, "redaction")
  /\ pc' = "check_empty"
  /\ UNCHANGED <<req, step1, step2, plan, result, ret, log, beside>>

\* Variant: the text is cut to the cap before the blocklist is applied.
StripNSFW_AfterCut ==
  /\ pc = "redaction"
  /\ step3' = stripNSFWMarkers(truncatePrompt(step2))
  /\ ran' = Append(ran, "redaction")
  /\ pc' = "check_empty"
  /\ UNCHANGED <<req, step1, step2, plan, result, ret, log, beside>>

StripNSFW ==
  /\ pc = "redaction"
  /\ step3' = stripNSFWMarkers(step2)
  /\ ran' = Append(ran, "redaction")
  /\ pc' = "check_empty"
  /\ UNCHANGED <<req, step1, step2, plan, result, ret, log, beside>>

\* if (step3.empty()) throw std::runtime_error
CheckEmpty ==
  /\ pc = "check_empty"
  /\ IF step3 = <<>>
     THEN Finish(Thrown("SanitizationExhausted")) /\ UNCHANGED <<req, ran>>
     ELSE pc' = "truncation"
          /\ UNCHANGED <<req, step1, step2, step3, plan, result, ran, ret, log, beside>>

\* if (step3.size() > 8000) step3.resize(8000); return step3;
\* and plan.corePrompt receives the returned string.
Truncate ==
  /\ pc = "truncation"
  /\ step3' = truncatePrompt(step3)
  /\ plan' = [plan EXCEPT !.corePrompt = truncatePrompt(step3)]
  /\ ran' = Append(ran, "truncation")
  /\ pc' = "classification"
  /\ UNCHANGED <<req, step1, step2, result, ret, log, beside>>

\* buildScenePlanFromPrompt, lines 438 to 495: the classifiers are called one
\* after the other and each result is stored in the plan.
ClassifyFacets ==
  /\ pc = "classification"
  /\ plan' = classifyFacets(plan.corePrompt, req.mode, req.safety, req.quality)
  /\ ran' = Append(ran, "classification")
  /\ pc' = "assembly"
  /\ UNCHANGED <<req, step1, step2, step3, result, ret, log, beside>>

\* buildScenePlanFromPrompt, lines 497 to 500: the last fields are written
\* and the finished plan is returned.
FinishScenePlan ==
  /\ pc = "assembly"
  /\ plan' = withNegatives(plan)
  /\ ran' = Append(ran, "assembly")
  /\ pc' = "serialization"
  /\ UNCHANGED <<req, step1, step2, step3, result, ret, log, beside>>

\* result.scene = <the plan>; result.jsonControl = serializeScenePlanToJSON(result.scene);
Serialize ==
  /\ pc = "serialization"
  /\ result' = Some([scene |-> plan, jsonControl |-> serializeScenePlanToJSON(plan)])
  /\ ran' = Append(ran, "serialization")
  /\ pc' = "return"
  /\ UNCHANGED <<req, step1, step2, step3, plan, ret, log, beside>>

Return ==
  /\ pc = "return"
  /\ Finish(Returned(result[1]))
  /\ UNCHANGED <<req, ran>>

Next ==
  \/ Invoke
  \/ CheckRaw
  \/ StripControl
  \/ CollapseWhitespace
  \/ StripNSFW
  \/ CheckEmpty
  \/ Truncate
  \/ ClassifyFacets
  \/ FinishScenePlan
  \/ Serialize
  \/ Return

Spec == Init /\ [][Next]_vars

\* The statements of an invocation.  The code is synchronous and
\* single-threaded: once BuildSemanticIGSpec is called, the next statement is
\* always executed.
Pipeline ==
  \/ CheckRaw
  \/ StripControl
  \/ CollapseWhitespace
  \/ StripNSFW
  \/ CheckEmpty
  \/ Truncate
  \/ ClassifyFacets
  \/ FinishScenePlan
  \/ Serialize
  \/ Return

\* One invocation that, once called, runs on.
NextLive ==
  \/ InvokeLive
  \/ CheckRaw
  \/ StripControl
  \/ CollapseWhitespace
  \/ StripNSFW
  \/ CheckEmpty
  \/ Truncate
  \/ ClassifyFacets
  \/ FinishScenePlan
  \/ Serialize
  \/ Return

SpecLive == Init /\ [][NextLive]_vars /\ WF_vars(Pipeline)

\* One invocation, over the large set of prompts.
NextSingle ==
  \/ InvokeSingle
  \/ CheckRaw
  \/ StripControl
  \/ CollapseWhitespace
  \/ StripNSFW
  \/ CheckEmpty
  \/ Truncate
  \/ ClassifyFacets
  \/ FinishScenePlan
  \/ Serialize
  \/ Return

SpecSingle == Init /\ [][NextSingle]_vars

\* One invocation, over prompts made of the classifiers' words.
NextClassify ==
  \/ InvokeClassify
  \/ CheckRaw
  \/ StripControl
  \/ CollapseWhitespace
  \/ StripNSFW
  \/ CheckEmpty
  \/ Truncate
  \/ ClassifyFacets
  \/ FinishScenePlan
  \/ Serialize
  \/ Return

SpecClassify == Init /\ [][NextClassify]_vars

\* serializeScenePlanToJSON called on a plan of any content.
InitSerializer ==
  /\ pc = "serialization"
  /\ plan \in SerializerPlans
  /\ req = NoRequest
  /\ step1 = <<>> /\ step2 = <<>> /\ step3 = <<>>
  /\ result = None
  /\ ran = <<>>
  /\ ret = None
  /\ log = <<>>
  /\ NothingBeside

NextSerializer == Serialize

SpecSerializer == InitSerializer /\ [][NextSerializer]_vars

\* Several threads call BuildSemanticIGSpec, each once, with no lock.  The
\* variables pc .. ret are the locals of the invocation of the thread that
\* takes the next step; threads holds the locals of the invocations of the
\* other threads.  The functions of the router have no variable of static
\* storage that is written: kBlockList and stopWords are arrays of literals,
\* so the locals are all an invocation reads or writes.
Locals ==
  [pc |-> pc, req |-> req, step1 |-> step1, step2 |-> step2, step3 |-> step3,
   plan |-> plan, result |-> result, ran |-> ran, ret |-> ret]

NotCalled ==
  [pc |-> "idle", req |-> NoRequest, step1 |-> <<>>, step2 |-> <<>>,
   step3 |-> <<>>, plan |-> emptyScenePlan, result |-> None, ran |-> <<>>,
   ret |-> None]

InitThreads ==
  /\ pc = "idle"
  /\ req = NoRequest
  /\ step1 = <<>> /\ step2 = <<>> /\ step3 = <<>>
  /\ plan = emptyScenePlan
  /\ result = None
  /\ ran = <<>>
  /\ ret = None
  /\ log = <<>>
  /\ threads = [i \in 1..(MaxThreads - 1) |-> NotCalled]
  /\ tracer = [pc |-> "unused"]
  /\ preprocessor = [pc |-> "unused"]
  /\ captioner = [pc |-> "unused"]

\* A thread that has not called yet calls BuildSemanticIGSpec.
InvokeThread ==
  pc = "idle" /\ ret = None /\ ran = <<>> /\ \E r \in ThreadRequests : Enter(r)

\* The scheduler lets another thread take the next step.
Switch ==
  \E i \in 1..Len(threads) :
    /\ threads' = [threads EXCEPT ![i] = Locals]
    /\ pc' = threads[i].pc
    /\ req' = threads[i].req
    /\ step1' = threads[i].step1
    /\ step2' = threads[i].step2
    /\ step3' = threads[i].step3
    /\ plan' = threads[i].plan
    /\ result' = threads[i].result
    /\ ran' = threads[i].ran
    /\ ret' = threads[i].ret
    /\ UNCHANGED <<log, tracer, preprocessor, captioner>>

NextThreads ==
  \/ InvokeThread
  \/ Switch
  \/ CheckRaw
  \/ StripControl
  \/ CollapseWhitespace
  \/ StripNSFW
  \/ CheckEmpty
  \/ Truncate
  \/ ClassifyFacets
  \/ FinishScenePlan
  \/ Serialize
  \/ Return

SpecThreads == InitThreads /\ [][NextThreads]_vars

\* stripControl and collapseWhitespace called on their own, each on a string
\* and then on its own result: step1 is the string, step2 the result and
\* step3 the result of the second call.
InitText ==
  /\ pc = "apply"
  /\ step1 \in TextStrings
  /\ step2 = <<>> /\ step3 = <<>>
  /\ req = NoRequest
  /\ plan = emptyScenePlan
  /\ result = None
  /\ ran = <<>>
  /\ ret = None
  /\ log = <<>>
  /\ NothingBeside

ApplyStripControl ==
  /\ pc = "apply"
  /\ step2' = stripControl(step1)
  /\ ran' = <<"strip_control">>
  /\ pc' = "apply_again"
  /\ UNCHANGED <<req, step1, step3, plan, result, ret, log, beside>>

ApplyStripControlAgain ==
  /\ pc = "apply_again" /\ ran = <<"strip_control">>
  /\ step3' = stripControl(step2)
  /\ ran' = Append(ran, "strip_control")
  /\ pc' = "applied_twice"
  /\ UNCHANGED <<req, step1, step2, plan, result, ret, log, beside>>

ApplyCollapseWhitespace ==
  /\ pc = "apply"
  /\ step2' = collapseWhitespace(step1)
  /\ ran' = <<"collapse_whitespace">>
  /\ pc' = "apply_again"
  /\ UNCHANGED <<req, step1, step3, plan, result, ret, log, beside>>

ApplyCollapseWhitespaceAgain ==
  /\ pc = "apply_again" /\ ran = <<"collapse_whitespace">>
  /\ step3' = collapseWhitespace(step2)
  /\ ran' = Append(ran, "collapse_whitespace")
  /\ pc' = "applied_twice"
  /\ UNCHANGED <<req, step1, step2, plan, result, ret, log, beside>>

NextText ==
  \/ ApplyStripControl
  \/ ApplyStripControlAgain
  \/ ApplyCollapseWhitespace
  \/ ApplyCollapseWhitespaceAgain

SpecText == InitText /\ [][NextText]_vars

(***************************************************************************)
(* VCVisualTracePipeline (VCVisualLatentTrace.hpp).  The four backends are *)
(* interfaces: a backend that is called returns one of a few values.  A    *)
(* VCFloatVec is kept as its direction and its length (0: all zero, 1:     *)
(* unit, 2: any other); the components themselves are not kept.            *)
(***************************************************************************)
\* VCFloatVec::normalize_l2: a vector of zeros stays, any other gets length 1.
normalize_l2(v) == IF v.len = 0 THEN v ELSE [v EXCEPT !.len = 1]

\* What IVisualEncoder::encode may return.
EncoderOutputs ==
  { [dir |-> "a", len |-> 0], [dir |-> "a", len |-> 2], [dir |-> "b", len |-> 1] }

\* What ILatentGenerator::generate_latents may return.
LatentOutputs == { "latents_1", "latents_2" }

\* What IImageDecoder::decode_image may leave in out_rgba: width * height * 4
\* bytes.
ImageOutputs(width, height) == { Repeat(v, width * height * 4) : v \in {0, 255} }

\* What IAssetDecoder::decode_asset may leave in out_asset_bytes.
AssetOutputs == { <<103, 108, 66>>, <<1>> }

\* The buffers a caller passes to run.
PassedBuffers == { <<>>, <<7, 7>> }

\* The arguments of run that its statements look at or copy.
RunArguments ==
  [ request_id : {"r1"}, text_prompt : {"a cat"}, seed : {3}, want_image : BOOLEAN, want_asset : BOOLEAN,
    out_width : {1}, out_height : {1, 2},
    image_rgba_out : PassedBuffers, asset_bytes_out : PassedBuffers ]

\* VCVisualTrace trace; before its members are assigned.
emptyTrace ==
  [request_id |-> "", text_prompt |-> "", seed |-> 0, width |-> 0, height |-> 0,
   visual_input |-> [dir |-> "a", len |-> 0], latents |-> "zero",
   trace_vector |-> [dir |-> "a", len |-> 0]]

\* A pipeline as its constructor leaves it: each backend given or null.
TracePipelines ==
  { [pc |-> "idle", encoder_ |-> e, latent_gen_ |-> g, img_decoder_ |-> i,
     asset_decoder_ |-> a] : e, g, i, a \in BOOLEAN }

InitTracer ==
  /\ pc = "idle"
  /\ req = NoRequest
  /\ step1 = <<>> /\ step2 = <<>> /\ step3 = <<>>
  /\ plan = emptyScenePlan
  /\ result = None
  /\ ran = <<>>
  /\ ret = None
  /\ log = <<>>
  /\ threads = <<>>
  /\ tracer \in TracePipelines
  /\ preprocessor = [pc |-> "unused"]
  /\ captioner = [pc |-> "unused"]

\* run is called: the test for a missing encoder or latent generator, and
\* the first assignments to trace.
RunEnter ==
  /\ tracer.pc = "idle"
  /\ \E a \in RunArguments :
       tracer' =
         [pc              |-> IF ~tracer.encoder_ \/ ~tracer.latent_gen_
                              THEN "thrown" ELSE "encode",
          encoder_        |-> tracer.encoder_,
          latent_gen_     |-> tracer.latent_gen_,
          img_decoder_    |-> tracer.img_decoder_,
          asset_decoder_  |-> tracer.asset_decoder_,
          args            |-> a,
          image_rgba_out  |-> a.image_rgba_out,
          asset_bytes_out |-> a.asset_bytes_out,
          calls           |-> <<>>,
          trace           |-> IF ~tracer.encoder_ \/ ~tracer.latent_gen_
                              THEN emptyTrace
                              ELSE [emptyTrace EXCEPT !.request_id = a.request_id,
                                                      !.text_prompt = a.text_prompt,
                                                      !.seed = a.seed,
                                                      !.width = a.out_width,
                                                      !.height = a.out_height]]
  /\ UNCHANGED <<router, threads, preprocessor, captioner>>

\* trace.visual_input = encoder_->encode(...); global.normalize_l2();
RunEncode ==
  /\ tracer.pc = "encode"
  /\ \E v \in EncoderOutputs :
       tracer' = [tracer EXCEPT !.pc = "generate_latents",
                                !.calls = Append(@, "encode"),
                                !.trace.visual_input = normalize_l2(v)]
  /\ UNCHANGED <<router, threads, preprocessor, captioner>>

\* trace.latents = latent_gen_->generate_latents(...);
RunGenerateLatents ==
  /\ tracer.pc = "generate_latents"
  /\ \E l \in LatentOutputs :
       tracer' = [tracer EXCEPT !.pc = "decode_image",
                                !.calls = Append(@, "generate_latents"),
                                !.trace.latents = l]
  /\ UNCHANGED <<router, threads, preprocessor, captioner>>

\* Variant: a buffer that is not wanted is cleared.
RunDecodeImage_ClearsUnwanted ==
  /\ tracer.pc = "decode_image"
  /\ IF tracer.args.want_image /\ tracer.img_decoder_
     THEN \E out \in ImageOutputs(tracer.args.out_width, tracer.args.out_height) :
            tracer' = [tracer EXCEPT !.pc = "decode_asset",
                                     !.calls = Append(@, "decode_image"),
                                     !.image_rgba_out = out]
     ELSE tracer' = [tracer EXCEPT !.pc = "decode_asset", !.image_rgba_out = <<>>]
  /\ UNCHANGED <<router, threads, preprocessor, captioner>>

\* if (want_image && img_decoder_) img_decoder_->decode_image(...);
RunDecodeImage ==
  /\ tracer.pc = "decode_image"
  /\ IF tracer.args.want_image /\ tracer.img_decoder_
     THEN \E out \in ImageOutputs(tracer.args.out_width, tracer.args.out_height) :
            tracer' = [tracer EXCEPT !.pc = "decode_asset",
                                     !.calls = Append(@, "decode_image"),
                                     !.image_rgba_out = out]
     ELSE tracer' = [tracer EXCEPT !.pc = "decode_asset"]
  /\ UNCHANGED <<router, threads, preprocessor, captioner>>

\* if (want_asset && asset_decoder_) asset_decoder_->decode_asset(...);
RunDecodeAsset ==
  /\ tracer.pc = "decode_asset"
  /\ IF tracer.args.want_asset /\ tracer.asset_decoder_
     THEN \E out \in AssetOutputs :
            tracer' = [tracer EXCEPT !.pc = "build_trace_vector",
                                     !.calls = Append(@, "decode_asset"),
                                     !.asset_bytes_out = out]
     ELSE tracer' = [tracer EXCEPT !.pc = "build_trace_vector"]
  /\ UNCHANGED <<router, threads, preprocessor, captioner>>

\* _build_trace_vector(trace): the sum of the embedding and the weighted
\* latents, normalized.  The sum is all zero if its parts are; its direction
\* is one the parts fix.
build_trace_vector(trace) ==
  normalize_l2([dir |-> <<trace.visual_input.dir, trace.latents>>,
                len |-> IF trace.visual_input.len = 0 /\ trace.latents = "zero"
                        THEN 0 ELSE 2])

\* _build_trace_vector(trace); return trace;
RunBuildTraceVector ==
  /\ tracer.pc = "build_trace_vector"
  /\ tracer' = [tracer EXCEPT !.pc = "returned",
                              !.trace.trace_vector = build_trace_vector(tracer.trace)]
  /\ UNCHANGED <<router, threads, preprocessor, captioner>>

NextTracer ==
  \/ RunEnter
  \/ RunEncode
  \/ RunGenerateLatents
  \/ RunDecodeImage
  \/ RunDecodeAsset
  \/ RunBuildTraceVector

SpecTracer == InitTracer /\ [][NextTracer]_vars

(***************************************************************************)
(* VTViTGPT2Captioner (vit_convnxt_caption_stack.cpp).  The decoder        *)
(* backend is an interface: each call returns one of a few logit vectors.  *)
(* A float is a number or NaN, which is all that operator > tells apart.   *)
(***************************************************************************)
MaxCaptionTokens == 3

NaN == [nan |-> TRUE, v |-> 0]

\* The float of value x.
Float(x) == [nan |-> FALSE, v |-> x]

\* a > b on floats: false when either side is NaN.
FloatGreater(a, b) == ~a.nan /\ ~b.nan /\ a.v > b.v

\* What ITextDecoderBackend::NextTokenLogits may return.
LogitVectors ==
  { <<>>, <<Float(4)>>, <<Float(1), Float(1)>>, <<Float(0), Float(5)>>,
    <<Float(0), Float(5), Float(5)>>, <<Float(0), Float(1), Float(2)>>,
    <<NaN, Float(5)>>, <<Float(0), NaN, Float(1)>> }

\* The token ids the captioner is constructed with.
TokenIds == 0..2

RECURSIVE ArgMaxFrom(_, _, _, _)
\* The loop of ArgMaxToken from index i (counted from 0) on.
ArgMaxFrom(logits, i, bestIdx, bestVal) ==
  IF i >= Len(logits) THEN bestIdx
  ELSE IF FloatGreater(logits[i + 1], bestVal)
       THEN ArgMaxFrom(logits, i + 1, i, logits[i + 1])
       ELSE ArgMaxFrom(logits, i + 1, bestIdx, bestVal)

\* ArgMaxToken: 0 for no logits, else the first index of the greatest.
ArgMaxToken(logits) ==
  IF logits = <<>> THEN 0 ELSE ArgMaxFrom(logits, 1, 0, logits[1])

\* A captioner as its constructor leaves it (both backends given).
Captioners ==
  { [pc |-> "idle", maxCaptionTokens |-> m, eosTokenId_ |-> e, bosTokenId_ |-> b,
     tokens |-> <<>>, step |-> 0, calls |-> 0] :
      m \in -1..MaxCaptionTokens, e \in TokenIds, b \in TokenIds }

InitCaptioner ==
  /\ pc = "idle"
  /\ req = NoRequest
  /\ step1 = <<>> /\ step2 = <<>> /\ step3 = <<>>
  /\ plan = emptyScenePlan
  /\ result = None
  /\ ran = <<>>
  /\ ret = None
  /\ log = <<>>
  /\ threads = <<>>
  /\ tracer = [pc |-> "unused"]
  /\ preprocessor = [pc |-> "unused"]
  /\ captioner \in Captioners

\* GenerateCaptionTokens up to its loop: Encode, tokens.reserve (which throws
\* std::length_error for a negative count, converted to size_t), push_back.
GenerateEnter ==
  /\ captioner.pc = "idle"
  /\ captioner' =
       IF captioner.maxCaptionTokens < 0
       THEN [captioner EXCEPT !.pc = "thrown"]
       ELSE [captioner EXCEPT !.pc = "loop",
                              !.tokens = <<captioner.bosTokenId_>>,
                              !.step = 0]
  /\ UNCHANGED <<router, threads, tracer, preprocessor>>

\* Variant: no break at the end-of-sequence token.
GenerateStep_NoBreak ==
  /\ captioner.pc = "loop"
  /\ captioner.step < captioner.maxCaptionTokens
  /\ \E logits \in LogitVectors :
       LET nextId == ArgMaxToken(logits) IN
         captioner' = [captioner EXCEPT !.calls = @ + 1,
                                        !.tokens = Append(@, nextId),
                                        !.step = @ + 1]
  /\ UNCHANGED <<router, threads, tracer, preprocessor>>

\* One pass of the for loop: NextTokenLogits, ArgMaxToken, push_back, and
\* either break or ++step.
GenerateStep ==
  /\ captioner.pc = "loop"
  /\ captioner.step < captioner.maxCaptionTokens
  /\ \E logits \in LogitVectors :
       LET nextId == ArgMaxToken(logits) IN
         captioner' =
           IF nextId = captioner.eosTokenId_
           THEN [captioner EXCEPT !.calls = @ + 1,
                                  !.tokens = Append(@, nextId),
                                  !.pc = "returned"]
           ELSE [captioner EXCEPT !.calls = @ + 1,
                                  !.tokens = Append(@, nextId),
                                  !.step = @ + 1]
  /\ UNCHANGED <<router, threads, tracer, preprocessor>>

\* The loop test fails: return tokens;
GenerateReturn ==
  /\ captioner.pc = "loop"
  /\ captioner.step >= captioner.maxCaptionTokens
  /\ captioner' = [captioner EXCEPT !.pc = "returned"]
  /\ UNCHANGED <<router, threads, tracer, preprocessor>>

NextCaptioner ==
  \/ GenerateEnter
  \/ GenerateStep
  \/ GenerateReturn

\* The thread that called GenerateCaptionTokens keeps running, and each call
\* of the backend returns.
SpecCaptioner ==
  InitCaptioner /\ [][NextCaptioner]_vars /\ WF_vars(NextCaptioner)

(***************************************************************************)
(* VCImagePreprocessor (sanitized_image_preprocessing_pipeline.cpp).  An   *)
(* image is its width and height (cols, rows); pixel values are not kept.  *)
(* The scale factors are IEEE single precision floats, kept exactly: a     *)
(* positive float is m / 2^k with 2^23 <= m < 2^24.                        *)
(***************************************************************************)
RECURSIVE Pow2(_)
Pow2(n) == IF n = 0 THEN 1 ELSE 2 * Pow2(n - 1)

RECURSIVE BitLen(_)
\* The number of binary digits of n.
BitLen(n) == IF n = 0 THEN 0 ELSE 1 + BitLen(n \div 2)

\* Round to nearest, ties to even: kept is the mantissa, rem what was cut
\* off, half the half of one unit in the last place of kept.
RoundNearestEven(kept, rem, half, k) ==
  LET up == rem > half \/ (rem = half /\ kept % 2 = 1)
      m  == IF up THEN kept + 1 ELSE kept
  IN  IF m = Pow2(24) THEN [m |-> Pow2(23), k |-> k - 1] ELSE [m |-> m, k |-> k]

RECURSIVE F32DivBits(_, _, _, _)
\* Long division: m holds the binary digits of the quotient so far, k of
\* them after the point, r is the remainder.
F32DivBits(r, b, m, k) ==
  IF m >= Pow2(23) THEN RoundNearestEven(m, 2 * r, b, k)
  ELSE IF 2 * r >= b
       THEN F32DivBits(2 * r - b, b, 2 * m + 1, k + 1)
       ELSE F32DivBits(2 * r, b, 2 * m, k + 1)

\* static_cast<float>(a) / static_cast<float>(b), for 0 < a, b < 2^24.
F32Div(a, b) == F32DivBits(a % b, b, a \div b, 0)

\* w * f, with the int w converted to float: the exact product of w and the
\* mantissa, held as hi * 2^12 + lo, rounded to 24 binary digits.
F32TimesInt(w, f) ==
  LET mh == f.m \div 4096
      ml == f.m % 4096
      hi == w * mh + (w * ml) \div 4096
      lo == (w * ml) % 4096
      d  == BitLen(hi) - 12
  IN  IF d = 0 THEN [m |-> hi * 4096 + lo, k |-> f.k]
      ELSE IF d <= 12
      THEN RoundNearestEven(hi * Pow2(12 - d) + lo \div Pow2(d),
                            lo % Pow2(d), Pow2(d - 1), f.k - d)
      ELSE RoundNearestEven(hi \div Pow2(d - 12),
                            (hi % Pow2(d - 12)) * 4096 + lo, Pow2(d - 1), f.k - d)

\* a < b on positive floats.
F32Less(a, b) == a.k > b.k \/ (a.k = b.k /\ a.m < b.m)

\* static_cast<int>(f): the fraction is dropped.
F32ToInt(f) ==
  IF f.k >= 31 THEN 0
  ELSE IF f.k >= 0 THEN f.m \div Pow2(f.k)
  ELSE f.m * Pow2(0 - f.k)

\* VCImagePreprocessConfig as its constructor sets it.
DefaultConfig ==
  [targetWidth |-> 1024, targetHeight |-> 1024, keepAspect |-> TRUE,
   centerCrop |-> TRUE, normalizeToZeroMean |-> TRUE, clampSmallImages |-> TRUE,
   minWidth |-> 64, minHeight |-> 64]

\* The configurations a preprocessor is constructed with.
PreprocessConfigs ==
  { DefaultConfig,
    [DefaultConfig EXCEPT !.keepAspect = FALSE],
    [DefaultConfig EXCEPT !.centerCrop = FALSE],
    [DefaultConfig EXCEPT !.clampSmallImages = FALSE] }

\* The widths and heights of the encoded images.
ImageSides == {1, 41, 64, 82, 512, 1024, 2048, 5000}

\* inputBytes: no bytes, bytes that are no image, or an encoded image.
InputBytes ==
  { [kind |-> "empty", cols |-> 0, rows |-> 0],
    [kind |-> "garbage", cols |-> 0, rows |-> 0] }
  \cup { [kind |-> "image", cols |-> c, rows |-> r] : c, r \in ImageSides }

\* The result of a step that threw.
NoMat == [cols |-> 0, rows |-> 0]

\* cv::resize(img, out, cv::Size(width, height), ...): it throws for a size
\* with a side that is not positive.
resize(width, height) ==
  IF width <= 0 \/ height <= 0 THEN NoMat ELSE [cols |-> width, rows |-> height]

\* upscaleToMin
upscaleToMin(config, img) ==
  LET w == img.cols
      h == img.rows
      scaleW == F32Div(config.minWidth, w)
      scaleH == F32Div(config.minHeight, h)
      scale == IF F32Less(scaleH, scaleW) THEN scaleW ELSE scaleH
      newW == F32ToInt(F32TimesInt(w, scale))
      newH == F32ToInt(F32TimesInt(h, scale))
  IN  IF w >= config.minWidth /\ h >= config.minHeight THEN img
      ELSE resize(newW, newH)

\* resizeWithPolicy
resizeWithPolicy(config, img) ==
  LET srcW == img.cols
      srcH == img.rows
      scaleW == F32Div(config.targetWidth, srcW)
      scaleH == F32Div(config.targetHeight, srcH)
      scale == IF F32Less(scaleW, scaleH) THEN scaleW ELSE scaleH
      newW == F32ToInt(F32TimesInt(srcW, scale))
      newH == F32ToInt(F32TimesInt(srcH, scale))
  IN  IF ~config.keepAspect THEN resize(config.targetWidth, config.targetHeight)
      ELSE resize(newW, newH)

\* centerCropIfNeeded
centerCropIfNeeded(config, img) ==
  LET x == IF img.cols - config.targetWidth > 0
           THEN (img.cols - config.targetWidth) \div 2 ELSE 0
      y == IF img.rows - config.targetHeight > 0
           THEN (img.rows - config.targetHeight) \div 2 ELSE 0
      w == Min({config.targetWidth, img.cols - x})
      h == Min({config.targetHeight, img.rows - y})
  IN  IF ~config.centerCrop THEN img
      ELSE IF img.cols = config.targetWidth /\ img.rows = config.targetHeight
      THEN img
      ELSE [cols |-> w, rows |-> h]

\* toCHW: the tensor's width, height and the length of its data.
toCHW(img) ==
  [width |-> img.cols, height |-> img.rows, data |-> img.cols * img.rows * 3]

\* A VCImagePreprocessor as its constructor leaves it.
Preprocessors ==
  { [pc |-> "idle", config |-> c, inputBytes |-> [kind |-> "empty", cols |-> 0, rows |-> 0],
     img |-> NoMat, tensor |-> toCHW(NoMat), what |-> ""] : c \in PreprocessConfigs }

InitPreprocessor ==
  /\ pc = "idle"
  /\ req = NoRequest
  /\ step1 = <<>> /\ step2 = <<>> /\ step3 = <<>>
  /\ plan = emptyScenePlan
  /\ result = None
  /\ ran = <<>>
  /\ ret = None
  /\ log = <<>>
  /\ threads = <<>>
  /\ tracer = [pc |-> "unused"]
  /\ preprocessor \in Preprocessors
  /\ captioner = [pc |-> "unused"]

\* process is called: the test for no bytes, and cv::imdecode.
ProcessDecode ==
  /\ preprocessor.pc = "idle"
  /\ \E b \in InputBytes :
       preprocessor' =
         IF b.kind = "empty"
         THEN [preprocessor EXCEPT !.pc = "thrown", !.inputBytes = b,
                                   !.what = "Empty image input"]
         ELSE IF b.kind = "garbage"
         THEN [preprocessor EXCEPT !.pc = "thrown", !.inputBytes = b,
                                   !.what = "Failed to decode image data"]
         ELSE [preprocessor EXCEPT !.pc = "check_min", !.inputBytes = b,
                                   !.img = [cols |-> b.cols, rows |-> b.rows]]
  /\ UNCHANGED <<router, threads, tracer, captioner>>

\* The test against minWidth and minHeight.
ProcessCheckMin ==
  /\ preprocessor.pc = "check_min"
  /\ LET config == preprocessor.config
         decoded == preprocessor.img
         small == decoded.cols < config.minWidth \/ decoded.rows < config.minHeight
         up == upscaleToMin(config, decoded)
     IN  preprocessor' =
           IF ~small THEN [preprocessor EXCEPT !.pc = "resize"]
           ELSE IF ~config.clampSmallImages
           THEN [preprocessor EXCEPT !.pc = "thrown",
                                     !.what = "Image below minimum size"]
           ELSE IF up = NoMat
           THEN [preprocessor EXCEPT !.pc = "thrown", !.what = "cv::resize"]
           ELSE [preprocessor EXCEPT !.pc = "resize", !.img = up]
  /\ UNCHANGED <<router, threads, tracer, captioner>>

\* cv::cvtColor, which keeps the size, and resizeWithPolicy.
ProcessResize ==
  /\ preprocessor.pc = "resize"
  /\ LET resized == resizeWithPolicy(preprocessor.config, preprocessor.img) IN
       preprocessor' =
         IF resized = NoMat
         THEN [preprocessor EXCEPT !.pc = "thrown", !.what = "cv::resize"]
         ELSE [preprocessor EXCEPT !.pc = "crop", !.img = resized]
  /\ UNCHANGED <<router, threads, tracer, captioner>>

\* centerCropIfNeeded
ProcessCrop ==
  /\ preprocessor.pc = "crop"
  /\ preprocessor' =
       [preprocessor EXCEPT !.pc = "to_chw",
                            !.img = centerCropIfNeeded(preprocessor.config, @)]
  /\ UNCHANGED <<router, threads, tracer, captioner>>

\* convertTo, which keeps the size, and return toCHW(f32);
ProcessToCHW ==
  /\ preprocessor.pc = "to_chw"
  /\ preprocessor' = [preprocessor EXCEPT !.pc = "returned",
                                          !.tensor = toCHW(preprocessor.img)]
  /\ UNCHANGED <<router, threads, tracer, captioner>>

NextPreprocessor ==
  \/ ProcessDecode
  \/ ProcessCheckMin
  \/ ProcessResize
  \/ ProcessCrop
  \/ ProcessToCHW

SpecPreprocessor == InitPreprocessor /\ [][NextPreprocessor]_vars

(***************************************************************************)
(* Properties.  The helpers below restate substring occurrence and letter  *)
(* case on their own, apart from the operators of the model.               *)
(***************************************************************************)
FoldCase(c) == IF c >= 65 /\ c <= 90 THEN c + 32 ELSE c

\* t occurs in s at the 0-based position p, letter case ignored.
OccursAtNoCase(t, s, p) ==
  /\ p >= 0 /\ p + Len(t) <= Len(s)
  /\ \A i \in 1..Len(t) : FoldCase(s[p + i]) = FoldCase(t[i])

OccursNoCase(t, s) == \E p \in 0..(Len(s) - Len(t)) : OccursAtNoCase(t, s, p)

BlockTerms ==
  << Bytes("nsfw"), Bytes("nude"), Bytes("nudity"), Bytes("porn"),
     Bytes("explicit"), Bytes("sexual"), Bytes("erotic") >>

\* The last invocation has finished and returned a value to the caller.
Succeeded == pc = "idle" /\ ret # None /\ ret[1].error = "none"

\* The last invocation has finished with the exception what.
Failed(what) == pc = "idle" /\ ret # None /\ ret[1].error = what

\* The statements after the sanitizer returned: plan.corePrompt holds its result.
Sanitized == pc \in {"classification", "assembly", "serialization", "return"}

\* C1: an invocation with an empty raw prompt fails with InvalidInput
\* (std::invalid_argument), and no stage -- strip_control,
\* collapse_whitespace, redaction, truncation, classification, assembly,
\* serialization -- has run before the failure.
C1_EmptyPromptInvalidInput ==
  req.prompt = <<>> =>
    /\ pc \in {"idle", "check_raw"}
    /\ ran = <<>>
    /\ ret # None => ret[1] = [error |-> "InvalidInput", scene |-> None,
                               jsonControl |-> None]

C1_Witness == Failed("InvalidInput") /\ req.prompt = <<>> /\ ran = <<>>

OnlyControlOrWhitespace(s) ==
  \A i \in 1..Len(s) : s[i] < 32 \/ s[i] = 127 \/ s[i] = 32

\* C2: a non-empty raw prompt made only of control bytes and whitespace
\* (space, tab, CR, LF) fails with SanitizationExhausted (std::runtime_error)
\* and no string is returned.
C2_ControlOnlyExhausted ==
  (req.prompt # <<>> /\ OnlyControlOrWhitespace(req.prompt)) =>
    /\ ~Sanitized
    /\ plan.corePrompt = <<>>
    /\ (pc = "idle" /\ ret # None) =>
         ret[1] = [error |-> "SanitizationExhausted", scene |-> None,
                   jsonControl |-> None]

C2_Witness ==
  /\ Failed("SanitizationExhausted")
  /\ Len(req.prompt) >= 2
  /\ OnlyControlOrWhitespace(req.prompt)
  /\ \E i \in 1..Len(req.prompt) : req.prompt[i] = 32
  /\ \E i \in 1..Len(req.prompt) : req.prompt[i] < 32 /\ req.prompt[i] # 9

\* C3: whenever sanitize succeeds, the sanitized result is at most 8000
\* bytes long.
C3_SanitizedAtMost8000 ==
  /\ Sanitized => Len(plan.corePrompt) <= 8000
  /\ Succeeded => Len(ret[1].scene[1].corePrompt) <= 8000

C3_Witness ==
  /\ Succeeded
  /\ Len(stripControl(req.prompt)) > 8000
  /\ Len(ret[1].scene[1].corePrompt) = 8000

NoControlByte(s) ==
  \A i \in 1..Len(s) : (s[i] >= 32 \/ s[i] = 9 \/ s[i] = 10) /\ s[i] <= 126

\* C4: in every scene plan the pipeline produces, core_prompt is non-empty
\* and holds no control byte: no byte below 32 other than tab and newline,
\* and no byte above 126.
C4_CorePromptClean ==
  /\ Sanitized => plan.corePrompt # <<>> /\ NoControlByte(plan.corePrompt)
  /\ Succeeded => /\ ret[1].scene[1].corePrompt # <<>>
                  /\ NoControlByte(ret[1].scene[1].corePrompt)

C4_Witness ==
  /\ Succeeded
  /\ \E i \in 1..Len(req.prompt) : req.prompt[i] < 32
  /\ \E i \in 1..Len(req.prompt) : req.prompt[i] > 126

NoBlockTerm(s) == \A k \in 1..Len(BlockTerms) : ~OccursNoCase(BlockTerms[k], s)

\* C5: whenever sanitize succeeds, the sanitized result holds none of nsfw,
\* nude, nudity, porn, explicit, sexual, erotic as a substring, letter case
\* ignored -- also when the result was cut at the length cap.
C5_NoBlockTermSurvives ==
  /\ pc \in {"check_empty", "truncation"} => NoBlockTerm(step3)
  /\ Sanitized => NoBlockTerm(plan.corePrompt)
  /\ Succeeded => NoBlockTerm(ret[1].scene[1].corePrompt)

C5_Witness ==
  /\ Succeeded
  /\ Len(req.prompt) > 8000
  /\ ~NoBlockTerm(req.prompt)
  /\ Len(ret[1].scene[1].corePrompt) = 8000

\* C6: redaction keeps length and position: the output is as long as the
\* input and every byte is either the input byte or '*'; terms match in any
\* letter case, so "a NUDE cat" becomes "a **** cat".
C6_RedactionPreservesLength ==
  pc = "check_empty" =>
    /\ Len(step3) = Len(step2)
    /\ \A i \in 1..Len(step2) : step3[i] = step2[i] \/ step3[i] = 42
    /\ step2 = Bytes("a NUDE cat") => step3 = Bytes("a **** cat")

C6_Witness ==
  /\ pc = "check_empty"
  /\ step2 = Bytes("a NUDE cat")
  /\ step3 = Bytes("a **** cat")

\* The text after every occurrence of t in prev is overwritten with '*'.
MaskAllOccurrences(prev, t) ==
  AsString([i \in 1..Len(prev) |->
              IF \E p \in (i - Len(t))..(i - 1) :
                   /\ p >= 0 /\ p + Len(t) <= Len(prev)
                   /\ \A j \in 1..Len(t) : prev[p + j] = t[j]
              THEN 42 ELSE prev[i]],
           Len(prev))

\* The lower-cased text after the first k terms were applied in order.
RECURSIVE MaskedAfter(_, _)
MaskedAfter(s, k) ==
  IF k = 0 THEN AsString([i \in 1..Len(s) |-> FoldCase(s[i])], Len(s))
  ELSE MaskAllOccurrences(MaskedAfter(s, k - 1), BlockTerms[k])

\* C7: the terms are applied in the order nsfw, nude, nudity, porn,
\* explicit, sexual, erotic, each to the text as the earlier terms left it,
\* masking every occurrence found from left to right; where two terms
\* overlap the earlier one wins, so "pornude" becomes "por****".
C7_RedactionInTermOrder ==
  pc = "check_empty" =>
    /\ LET masked == MaskedAfter(step2, Len(BlockTerms))
       IN  /\ Len(step3) = Len(step2)
           /\ \A i \in 1..Len(step2) :
                step3[i] = IF masked[i] = 42 THEN 42 ELSE step2[i]
    /\ step2 = Bytes("pornude") => step3 = Bytes("por****")

C7_Witness ==
  /\ pc = "check_empty"
  /\ step2 = Bytes("pornude")
  /\ step3 = Bytes("por****")

\* C8: two invocations with the same prompt, mode, safety and quality have
\* the same outcome -- the same error, or the same plan field for field and
\* the same JSON byte for byte -- whatever ran in between.
C8_Deterministic ==
  \A i, j \in 1..Len(log) : log[i].req = log[j].req => log[i].out = log[j].out

C8_Witness ==
  /\ Len(log) >= 3
  /\ log[1].req = log[3].req
  /\ log[2].req # log[1].req
  /\ log[1].out.error = "none"
  /\ log[2].out.error = "none"

WellFormedOutcome(o) ==
  \/ /\ o.error \in {"InvalidInput", "SanitizationExhausted"}
     /\ o.scene = None
     /\ o.jsonControl = None
  \/ /\ o.error = "none"
     /\ Len(o.scene) = 1
     /\ Len(o.jsonControl) = 1
     /\ o.jsonControl[1] = serializeScenePlanToJSON(o.scene[1])

\* C9: every invocation ends either in an error with neither a plan nor a
\* JSON string handed to the caller, or in success with both, the JSON being
\* the serialization of that plan; never with only one of the two.
C9_AllOrNothing ==
  /\ pc # "idle" => ret = None
  /\ pc = "idle" /\ log # <<>> =>
       /\ ret = Some(log[Len(log)].out)
       /\ WellFormedOutcome(ret[1])

C9_Witness ==
  /\ pc = "idle"
  /\ \E i \in 1..Len(log) : log[i].out.error = "InvalidInput"
  /\ \E i \in 1..Len(log) : log[i].out.error = "SanitizationExhausted"
  /\ \E i \in 1..Len(log) : log[i].out.error = "none"

ScenarioARequest == Request(ScenarioA, "TextToImage", "Safe", "High")

ScenarioAFinished == Succeeded /\ req = ScenarioARequest

\* C10 as stated: Scenario A yields aspect_ratio "16:9", lighting "soft",
\* composition rule "rule-of-thirds" and camera angle "eye-level".
C10_ScenarioA_AsStated ==
  ScenarioAFinished =>
    LET p == ret[1].scene[1]
    IN  /\ toStringAspectRatio(p.aspectRatio) = Bytes("16:9")
        /\ toStringLighting(p.colorLighting.lighting) = Bytes("soft")
        /\ toStringCompositionRule(p.composition.rule) = Bytes("rule-of-thirds")
        /\ toStringCameraAngle(p.camera.angle) = Bytes("eye-level")

\* C10, amended: Scenario A yields aspect_ratio "9:16" (the prompt holds
\* "portrait", which the first aspect rule matches), lighting "soft",
\* composition rule "rule-of-thirds" and camera angle "eye-level".
C10_ScenarioA ==
  ScenarioAFinished =>
    LET p == ret[1].scene[1]
    IN  /\ toStringAspectRatio(p.aspectRatio) = Bytes("9:16")
        /\ toStringLighting(p.colorLighting.lighting) = Bytes("soft")
        /\ toStringCompositionRule(p.composition.rule) = Bytes("rule-of-thirds")
        /\ toStringCameraAngle(p.camera.angle) = Bytes("eye-level")

C10_Witness ==
  /\ ScenarioAFinished
  /\ Contains(toLowerASCII(ret[1].scene[1].corePrompt), Bytes("portrait"))
  /\ Contains(toLowerASCII(ret[1].scene[1].corePrompt), Bytes("16:9"))

ScenarioDRequest == Request(ScenarioD, "TextToImage", "Safe", "High")

ScenarioDFinished == Succeeded /\ req = ScenarioDRequest

\* C11: Scenario D ("close-up of a dragon in a foggy forest at night, anime
\* style, 9:16") yields camera angle "close-up" with depth_of_field true,
\* background environment "forest", weather "foggy" and time_of_day "night",
\* art style "anime" and aspect_ratio "9:16".
C11_ScenarioD_Facets ==
  ScenarioDFinished =>
    LET p == ret[1].scene[1]
    IN  /\ toStringCameraAngle(p.camera.angle) = Bytes("close-up")
        /\ p.camera.depthOfField = TRUE
        /\ p.background.environment = Bytes("forest")
        /\ p.background.weather = Bytes("foggy")
        /\ p.background.timeOfDay = Bytes("night")
        /\ toStringArtStyle(p.artStyle.style) = Bytes("anime")
        /\ toStringAspectRatio(p.aspectRatio) = Bytes("9:16")

C11_Witness ==
  /\ ScenarioDFinished
  /\ ret[1].scene[1].corePrompt = ScenarioD
  /\ ret[1].scene[1].camera.angle = "CloseUp"
  /\ ret[1].scene[1].background.weather = Bytes("foggy")

\* C12 as stated: Scenario D yields primary_subject.name "dragon".
C12_ScenarioD_Subject_AsStated ==
  ScenarioDFinished => ret[1].scene[1].primarySubject.name = Bytes("dragon")

\* C12, amended: Scenario D yields primary_subject.name "9:16" -- the last
\* token of the prompt, which is no stop word; "dragon" is followed by seven
\* more tokens that are no stop words either.
C12_ScenarioD_Subject ==
  ScenarioDFinished => ret[1].scene[1].primarySubject.name = Bytes("9:16")

C12_Witness ==
  /\ ScenarioDFinished
  /\ OccursNoCase(Bytes("dragon"), ret[1].scene[1].corePrompt)
  /\ ret[1].scene[1].primarySubject.name # Bytes("subject")
  /\ Len(ret[1].scene[1].primarySubject.name) = 4

\* Every classifier has returned and its result is in the plan.
Classified == pc \in {"assembly", "serialization", "return"}

\* buildScenePlanFromPrompt has returned the plan.
Assembled == pc \in {"serialization", "return"}

\* The word occurs in the sanitized prompt, letter case ignored.
Has(word) == OccursNoCase(Bytes(word), plan.corePrompt)

\* C13: the aspect-ratio rules are tried top to bottom and the first match
\* wins: "vertical", "portrait" or "9:16" give 9:16 whatever else the text
\* holds; otherwise "cinematic", "wide", "16:9" or "21:9" give 21:9 if the
\* text holds "21:9" and 16:9 if not; otherwise "4:3" gives 4:3; otherwise
\* "3:4" gives 3:4; otherwise 1:1.
C13_AspectFirstMatchWins ==
  Classified =>
    toStringAspectRatio(plan.aspectRatio) =
      IF Has("vertical") \/ Has("portrait") \/ Has("9:16") THEN Bytes("9:16")
      ELSE IF Has("cinematic") \/ Has("wide") \/ Has("16:9") \/ Has("21:9")
           THEN IF Has("21:9") THEN Bytes("21:9") ELSE Bytes("16:9")
      ELSE IF Has("4:3") THEN Bytes("4:3")
      ELSE IF Has("3:4") THEN Bytes("3:4")
      ELSE Bytes("1:1")

C13_Witness ==
  /\ Classified
  /\ Has("portrait") /\ Has("21:9")
  /\ plan.aspectRatio = "Ratio_9_16"

ClassifierKeywords ==
  AspectWords \cup ArtStyleWords \cup LightingWords \cup ColorToneWords
  \cup CameraAngleWords \cup CompositionWords \cup EnvironmentWords
  \cup TimeOfDayWords \cup WeatherWords

NoClassifierKeyword(s) == \A w \in ClassifierKeywords : ~OccursNoCase(w, s)

\* C14: every classifier is total with a default: each enum field of the
\* plan holds one of the values its enum declares, and for a prompt with none
\* of the classifiers' words the plan has aspect_ratio 1:1, art style
\* unspecified, lighting auto, color tone neutral, camera angle eye-level,
\* composition rule none, and environment, time_of_day and weather empty.
C14_ClassifiersTotalWithDefaults ==
  Classified =>
    /\ plan.aspectRatio \in VCAspectRatio
    /\ plan.artStyle.style \in VCArtStyle
    /\ plan.artStyle.brushDetail \in VCBrushDetail
    /\ plan.colorLighting.lighting \in VCLighting
    /\ plan.colorLighting.colorTone \in VCColorTone
    /\ plan.camera.angle \in VCCameraAngle
    /\ plan.composition.rule \in VCCompositionRule
    /\ plan.mode \in VCIGMode
    /\ plan.safety \in VCSafetyProfile
    /\ plan.quality \in VCQualityPreset
    /\ NoClassifierKeyword(plan.corePrompt) =>
         /\ toStringAspectRatio(plan.aspectRatio) = Bytes("1:1")
         /\ toStringArtStyle(plan.artStyle.style) = Bytes("unspecified")
         /\ toStringLighting(plan.colorLighting.lighting) = Bytes("auto")
         /\ toStringColorTone(plan.colorLighting.colorTone) = Bytes("neutral")
         /\ toStringCameraAngle(plan.camera.angle) = Bytes("eye-level")
         /\ toStringCompositionRule(plan.composition.rule) = Bytes("none")
         /\ plan.background.environment = <<>>
         /\ plan.background.timeOfDay = <<>>
         /\ plan.background.weather = <<>>

C14_Witness ==
  /\ Classified
  /\ NoClassifierKeyword(plan.corePrompt)
  /\ Len(plan.corePrompt) >= 10
  /\ plan.colorLighting.lighting = "Auto"
  /\ plan.background.environment = <<>>

IsSeparator(c) == c \in {32, 44, 46, 33, 63}

\* The maximal runs of bytes that are no separators, as <<first, last>>.
TokenSpans(s) ==
  { sp \in (1..Len(s)) \X (1..Len(s)) :
      /\ sp[1] <= sp[2]
      /\ \A k \in sp[1]..sp[2] : ~IsSeparator(s[k])
      /\ sp[1] = 1 \/ IsSeparator(s[sp[1] - 1])
      /\ sp[2] = Len(s) \/ IsSeparator(s[sp[2] + 1]) }

StopWordSet ==
  { Bytes("a"), Bytes("an"), Bytes("the"), Bytes("of"), Bytes("in"), Bytes("on"),
    Bytes("with"), Bytes("at"), Bytes("to"), Bytes("for") }

ExpectedSubject(s) ==
  LET low       == AsString([i \in 1..Len(s) |-> FoldCase(s[i])], Len(s))
      spans     == TokenSpans(low)
      text(sp)  == SubSeq(low, sp[1], sp[2])
      main      == {sp \in spans : text(sp) \notin StopWordSet}
      latest(S) == CHOOSE sp \in S : \A o \in S : o[1] <= sp[1]
  IN  IF spans = {} THEN Bytes("subject")
      ELSE IF main # {} THEN text(latest(main))
      ELSE text(latest(spans))

\* C15: the subject name is found in the lower-cased sanitized prompt, split
\* into maximal runs of bytes other than space, comma, period, '!' and '?':
\* it is the last token not in {a, an, the, of, in, on, with, at, to, for};
\* the last token if every token is a stop word; "subject" if there is no
\* token.
C15_SubjectIsLastMainToken ==
  Classified =>
    /\ plan.primarySubject.name = ExpectedSubject(plan.corePrompt)
    /\ plan.corePrompt = Bytes("a, The") => plan.primarySubject.name = Bytes("the")
    /\ plan.corePrompt = Bytes(",?") => plan.primarySubject.name = Bytes("subject")

C15_Witness ==
  /\ Classified
  /\ plan.corePrompt = Bytes("Cat, a?The")
  /\ plan.primarySubject.name = Bytes("cat")

\* C16: in every plan the assembler returns, depth_of_field is true exactly
\* when the camera angle is CloseUp, and whatever the prompt: focal_length_mm
\* is 35.0, allow_cropping and center_main_subject are true, position_hint is
\* "center", attributes, era_hint and palette_hint are empty, brush_detail is
\* Normal, there are no secondary subjects, and the two negative constraints
\* are the fixed literals.
C16_FixedPolicyFields ==
  Assembled =>
    /\ plan.camera.depthOfField = TRUE <=> plan.camera.angle = "CloseUp"
    /\ plan.camera.depthOfField \in BOOLEAN
    /\ toStringFloat(plan.camera.focalLengthMM) = Bytes("35.000000")
    /\ plan.composition.allowCropping = TRUE
    /\ plan.composition.centerMainSubject = TRUE
    /\ plan.primarySubject.positionHint = Bytes("center")
    /\ plan.primarySubject.attributes = <<>>
    /\ plan.artStyle.brushDetail = "Normal"
    /\ plan.artStyle.eraHint = <<>>
    /\ plan.colorLighting.paletteHint = <<>>
    /\ plan.secondarySubjects = <<>>
    /\ plan.negatives.visualArtifacts =
         Bytes("blurry, extra limbs, distorted faces, text artifacts")
    /\ plan.negatives.contentExclusions = Bytes("no gore, no real-world logos")

C16_Witness ==
  /\ Assembled
  /\ Has("wide angle") /\ Has("close up")
  /\ plan.camera.angle = "CloseUp"
  /\ plan.camera.depthOfField = TRUE

\* The serializer has produced its text for plan.
Serialized == pc = "return" /\ result # None

\* Reading JSON text byte by byte: inside a string a backslash takes the next
\* byte with it and a double-quote ends the string; a string followed by ':'
\* is a key.  The skeleton of a text is the text with the content of every
\* string that is no key removed.
SkeletonFlush(st, c) ==
  IF st.pending = None THEN st.out
  ELSE IF c = 58 THEN st.out \o <<34>> \o st.pending[1] \o <<34>>
  ELSE st.out \o <<34, 34>>

ValuesFlush(st, c) ==
  IF st.pending = None \/ c = 58 THEN st.values
  ELSE Append(st.values, st.pending[1])

ScanBody(st, c) ==
  IF st.inStr
  THEN IF st.esc THEN [st EXCEPT !.esc = FALSE, !.cur = Append(st.cur, c)]
       ELSE IF c = 92 THEN [st EXCEPT !.esc = TRUE, !.cur = Append(st.cur, c)]
       ELSE IF c = 34
            THEN [st EXCEPT !.inStr = FALSE, !.pending = Some(st.cur), !.cur = <<>>]
       ELSE [st EXCEPT !.cur = Append(st.cur, c)]
  ELSE IF c = 34
       THEN [st EXCEPT !.inStr = TRUE, !.out = SkeletonFlush(st, c),
                       !.values = ValuesFlush(st, c), !.pending = None]
       ELSE [st EXCEPT !.out = Append(SkeletonFlush(st, c), c),
                       !.values = ValuesFlush(st, c), !.pending = None]

ScanJson(j) ==
  ForEach(ScanBody,
          [inStr |-> FALSE, esc |-> FALSE, cur |-> <<>>, pending |-> None,
           out |-> <<>>, values |-> <<>>],
          j, 1, Len(j))

Skeleton(j) ==
  LET st == ScanJson(j)
  IN  IF st.inStr \/ st.pending # None THEN <<>> ELSE st.out

\* The strings of a text that are no keys, in the order they appear, each as
\* it is written between its quotes.
StringValues(j) == ScanJson(j).values

\* What a JSON reader makes of the text between the quotes of a string; -1
\* stands for an escape JSON does not have or a backslash with nothing after.
UnescapeBody(st, c) ==
  IF st.esc
  THEN [esc |-> FALSE,
        out |-> Append(st.out,
                       CASE c = 34  -> 34
                         [] c = 92  -> 92
                         [] c = 47  -> 47
                         [] c = 110 -> 10
                         [] c = 114 -> 13
                         [] c = 116 -> 9
                         [] c = 98  -> 8
                         [] c = 102 -> 12
                         [] OTHER   -> -1)]
  ELSE IF c = 92 THEN [st EXCEPT !.esc = TRUE]
  ELSE [st EXCEPT !.out = Append(st.out, c)]

JsonUnescape(raw) ==
  LET st == ForEach(UnescapeBody, [esc |-> FALSE, out |-> <<>>], raw, 1, Len(raw))
  IN  IF st.esc THEN Append(st.out, -1) ELSE st.out

\* The members of an object or the elements of an array, comma-separated.
RECURSIVE JoinComma(_)
JoinComma(parts) ==
  IF parts = <<>> THEN <<>>
  ELSE IF Len(parts) = 1 THEN parts[1]
  ELSE parts[1] \o Bytes(",") \o JoinComma(Tail(parts))

Member(key, value) == <<34>> \o Bytes(key) \o <<34>> \o Bytes(":") \o value

Text == <<34, 34>>

Object(members) == Bytes("{") \o JoinComma(members) \o Bytes("}")

Array(elements) == Bytes("[") \o JoinComma(elements) \o Bytes("]")

SubjectLayout ==
  Object(<< Member("name", Text), Member("attributes", Text),
            Member("position_hint", Text) >>)

DocumentedLayout(p) ==
  Object(<<
    Member("core_prompt", Text),
    Member("mode", Text),
    Member("safety_profile", Text),
    Member("quality_preset", Text),
    Member("aspect_ratio", Text),
    Member("primary_subject", SubjectLayout),
    Member("secondary_subjects",
           Array([i \in 1..Len(p.secondarySubjects) |-> SubjectLayout])),
    Member("background",
           Object(<< Member("environment", Text), Member("time_of_day", Text),
                     Member("weather", Text) >>)),
    Member("color_lighting",
           Object(<< Member("color_tone", Text), Member("lighting", Text),
                     Member("palette_hint", Text) >>)),
    Member("camera",
           Object(<< Member("angle", Text),
                     Member("focal_length_mm", Bytes("35.000000")),
                     Member("depth_of_field",
                            IF p.camera.depthOfField THEN Bytes("true")
                            ELSE Bytes("false")) >>)),
    Member("composition",
           Object(<< Member("rule", Text),
                     Member("allow_cropping",
                            IF p.composition.allowCropping THEN Bytes("true")
                            ELSE Bytes("false")),
                     Member("center_main_subject",
                            IF p.composition.centerMainSubject THEN Bytes("true")
                            ELSE Bytes("false")) >>)),
    Member("art_style",
           Object(<< Member("style", Text), Member("brush_detail", Text),
                     Member("era_hint", Text) >>)),
    Member("negative_constraints",
           Object(<< Member("visual_artifacts", Text),
                     Member("content_exclusions", Text) >>)) >>)

\* C17: the JSON text of a plan is one object with the top-level keys
\* core_prompt, mode, safety_profile, quality_preset, aspect_ratio,
\* primary_subject, secondary_subjects, background, color_lighting, camera,
\* composition, art_style, negative_constraints in this order, the keys of
\* each nested object in the documented order, and the secondary subjects in
\* sequence order with a comma between two of them and none after the last
\* ([] for none).
C17_KeyOrder ==
  Serialized =>
    /\ Skeleton(result[1].jsonControl) = DocumentedLayout(plan)
    /\ LET values == StringValues(result[1].jsonControl)
       IN  \A i \in 1..Len(plan.secondarySubjects) :
             /\ JsonUnescape(values[3 * i + 6]) = plan.secondarySubjects[i].name
             /\ JsonUnescape(values[3 * i + 7]) = plan.secondarySubjects[i].attributes
             /\ JsonUnescape(values[3 * i + 8]) = plan.secondarySubjects[i].positionHint

C17_Witness ==
  /\ Serialized
  /\ Len(plan.secondarySubjects) = 2
  /\ plan.secondarySubjects[1] # plan.secondarySubjects[2]
  /\ Skeleton(result[1].jsonControl) = DocumentedLayout(plan)

\* What one byte becomes between the quotes of a string.
EscapeImage(c) ==
  CASE c = 92 -> <<92, 92>>
    [] c = 34 -> <<92, 34>>
    [] c = 10 -> <<92, 110>>
    [] c = 13 -> <<92, 114>>
    [] c = 9  -> <<92, 116>>
    [] c < 32 /\ c \notin {9, 10, 13} -> <<>>
    [] OTHER  -> <<c>>

RECURSIVE ImagesInOrder(_)
ImagesInOrder(s) ==
  IF s = <<>> THEN <<>>
  ELSE ImagesInOrder(SubSeq(s, 1, Len(s) - 1)) \o EscapeImage(s[Len(s)])

\* The text written between the quotes of core_prompt, the first string of
\* the JSON text that is no key.
EscapedCorePrompt == StringValues(result[1].jsonControl)[1]

\* C18: an escaped string holds no raw byte below 0x20 and no double-quote
\* or backslash that is not part of an escape: backslash, double-quote,
\* newline, carriage-return and tab become their two-character escapes,
\* every other byte below 0x20 is dropped, and all other bytes are copied
\* unchanged, in their original order.
C18_EscapeLeavesNoRawControl ==
  Serialized =>
    LET json    == result[1].jsonControl
        escaped == EscapedCorePrompt
        read    == JsonUnescape(escaped)
    IN  /\ escaped = ImagesInOrder(plan.corePrompt)
        /\ \A i \in 1..Len(escaped) : escaped[i] >= 32
        /\ \A i \in 1..Len(read) : read[i] # -1
        /\ \A i \in 1..Len(json) : json[i] >= 32

C18_Witness ==
  /\ Serialized
  /\ plan.corePrompt = <<34, 1, 10>>
  /\ EscapedCorePrompt = <<92, 34, 92, 110>>

\* No byte of s is one that escaping drops.
NothingDropped(s) == \A i \in 1..Len(s) : s[i] >= 32 \/ s[i] \in {9, 10, 13}

CleanStrings == {s \in StringsUpTo(MaxEscLen) \cup SpecialStrings : NothingDropped(s)}

\* Each of them with its escaped text.
EscapedOf == {<<s, jsonEscape(s)>> : s \in CleanStrings}

\* C19: escaping loses nothing of a string that has no byte below 0x20 other
\* than tab, newline and carriage-return: reading the escaped text back as
\* JSON gives the string again, so no two such strings have the same escaped
\* text.
C19_EscapeRoundTrip ==
  (Serialized /\ NothingDropped(plan.corePrompt)) =>
    LET escaped == EscapedCorePrompt
    IN  /\ JsonUnescape(escaped) = plan.corePrompt
        /\ \A other \in EscapedOf : other[2] = escaped => other[1] = plan.corePrompt

C19_Witness ==
  /\ Serialized
  /\ plan.corePrompt = <<34, 92, 10>>
  /\ NothingDropped(plan.corePrompt)
  /\ JsonUnescape(EscapedCorePrompt) = <<34, 92, 10>>

StageOrder ==
  << "strip_control", "collapse_whitespace", "redaction", "truncation",
     "classification", "assembly", "serialization" >>

\* The stages completed when the invocation is at pc.
StagesBefore(at) ==
  CASE at = "check_raw"           -> 0
    [] at = "strip_control"       -> 0
    [] at = "collapse_whitespace" -> 1
    [] at = "redaction"           -> 2
    [] at = "check_empty"         -> 3
    [] at = "truncation"          -> 3
    [] at = "classification"      -> 4
    [] at = "assembly"            -> 5
    [] at = "serialization"       -> 6
    [] at = "return"              -> 7

\* The stages run so far are the first stages of the order, each once, and
\* the invocation stands right behind the last of them.
StagesInOrder ==
  /\ Len(ran) <= Len(StageOrder)
  /\ ran = SubSeq(StageOrder, 1, Len(ran))
  /\ pc # "idle" => Len(ran) = StagesBefore(pc)
  /\ Succeeded => ran = StageOrder
  /\ Failed("InvalidInput") => ran = <<>>
  /\ Failed("SanitizationExhausted") => ran = SubSeq(StageOrder, 1, 3)

\* A step of an invocation completes at most one stage, the next one, and an
\* invocation ends in an error only at the test of the raw prompt or at the
\* test of the redacted prompt.
StepInOrder ==
  /\ (pc # "idle" /\ pc' # "idle") =>
       /\ ran' = ran \/ ran' = Append(ran, StageOrder[Len(ran) + 1])
       /\ StagesBefore(pc') = Len(ran')
  /\ (pc # "idle" /\ pc' = "idle") =>
       /\ ran' = ran
       /\ ret'[1].error = "none" => pc = "return"
       /\ ret'[1].error # "none" => pc \in {"check_raw", "check_empty"}

C21_Idempotent == pc = "applied_twice" => step3 = step2

C21_Witness ==
  /\ pc = "applied_twice"
  /\ ran = <<"collapse_whitespace", "collapse_whitespace">>
  /\ step1 = Bytes(" a  b ") \o <<9, 13, 10>> \o Bytes("c") \o <<10, 32>>
  /\ step2 = Bytes(" a b c")
  /\ step3 = Bytes(" a b c")
\* The text with every byte of a blocklist occurrence replaced by '*', the
\* terms taken in their order.
RedactedText(s) ==
  LET masked == MaskedAfter(s, Len(BlockTerms))
  IN  AsString([i \in 1..Len(s) |-> IF masked[i] = 42 THEN 42 ELSE s[i]], Len(s))

\* C22: truncation is the last stage of the sanitizer and a raw prefix cut:
\* if the redacted text is longer than 8000 bytes the sanitized result is
\* exactly its first 8000 bytes, otherwise it is the redacted text unchanged;
\* redaction is never applied to the text after the cut.
C22_TruncationLastPrefixCut ==
  Sanitized =>
    LET redacted == RedactedText(step2)
    IN  /\ Len(redacted) > 8000 =>
             /\ Len(plan.corePrompt) = 8000
             /\ \A i \in 1..8000 : plan.corePrompt[i] = redacted[i]
        /\ Len(redacted) <= 8000 => plan.corePrompt = redacted
        /\ SubSeq(ran, 1, 4) = << "strip_control", "collapse_whitespace",
                                  "redaction", "truncation" >>
        /\ \A i \in 5..Len(ran) : ran[i] \notin {"redaction", "truncation"}
        /\ pc = "return" => result[1].scene.corePrompt = plan.corePrompt

C22_Witness ==
  /\ pc = "return"
  /\ Len(step2) = 8002
  /\ SubSeq(step2, 7999, 8002) = Bytes("nude")
  /\ Len(plan.corePrompt) = 8000
  /\ SubSeq(plan.corePrompt, 7998, 8000) = Bytes(" **")
\* C25: the composition rules are tried in the order rule-of-thirds,
\* centered-or-symmetrical, golden-ratio, leading-lines, symmetric: a text
\* with "centered", "symmetrical" or "symmetry" and without "rule of thirds"
\* gives Centered even if it also holds "golden ratio" or "leading lines",
\* and Symmetric is the result exactly when the text holds "symmetric" and
\* none of "rule of thirds", "centered", "symmetrical", "symmetry",
\* "golden ratio", "leading lines".
C25_CompositionRuleOrder ==
  Classified =>
    LET rule == toStringCompositionRule(plan.composition.rule)
    IN  /\ Has("rule of thirds") => rule = Bytes("rule-of-thirds")
        /\ ((Has("centered") \/ Has("symmetrical") \/ Has("symmetry"))
            /\ ~Has("rule of thirds")) => rule = Bytes("centered")
        /\ (Has("golden ratio") /\ ~Has("rule of thirds") /\ ~Has("centered")
            /\ ~Has("symmetrical") /\ ~Has("symmetry")) => rule = Bytes("golden-ratio")
        /\ (Has("leading lines") /\ ~Has("rule of thirds") /\ ~Has("centered")
            /\ ~Has("symmetrical") /\ ~Has("symmetry") /\ ~Has("golden ratio"))
             => rule = Bytes("leading-lines")
        /\ rule = Bytes("symmetric") <=>
             /\ Has("symmetric")
             /\ ~Has("rule of thirds") /\ ~Has("centered") /\ ~Has("symmetrical")
             /\ ~Has("symmetry") /\ ~Has("golden ratio") /\ ~Has("leading lines")

C25_Witness ==
  /\ Classified
  /\ Has("symmetrical") /\ Has("symmetric") /\ Has("golden ratio")
  /\ ~Has("rule of thirds")
  /\ plan.composition.rule = "Centered"
NoDoubleSpace(s) == \A i \in 1..(Len(s) - 1) : ~(s[i] = 32 /\ s[i + 1] = 32)

EndsWithSpace(s) == s # <<>> /\ s[Len(s)] = 32

\* C26 as stated: whenever sanitize succeeds, the sanitized result does not
\* end with a space and holds no two consecutive spaces, also when it was cut
\* at the length cap.
C26_NoTrailingSpace_AsStated ==
  Sanitized => ~EndsWithSpace(plan.corePrompt) /\ NoDoubleSpace(plan.corePrompt)

\* C26, amended: whenever sanitize succeeds, the sanitized result holds no
\* two consecutive spaces, and it does not end with a space unless it was cut
\* at the length cap; a result that was cut ends with a space exactly when
\* the 8000th byte of the text before the cut is a space.
C26_NoTrailingSpace ==
  Sanitized =>
    /\ NoDoubleSpace(plan.corePrompt)
    /\ Len(step2) <= 8000 => ~EndsWithSpace(plan.corePrompt)
    /\ Len(step2) > 8000 => (EndsWithSpace(plan.corePrompt) <=> step2[8000] = 32)
    /\ pc = "return" => result[1].scene.corePrompt = plan.corePrompt

C26_Witness ==
  /\ pc = "return"
  /\ Len(step2) = 8001
  /\ Len(result[1].scene.corePrompt) = 8000
  /\ EndsWithSpace(result[1].scene.corePrompt)
  /\ \E i \in 1..Len(req.prompt) : req.prompt[i] = 32
\* The invocation has ended, with a value or with an exception.
Ended == pc = "idle" /\ ret # None

HasVisibleByte(s) == \E i \in 1..Len(s) : s[i] >= 33 /\ s[i] <= 126

\* C27: for a non-empty raw prompt the invocation fails with
\* SanitizationExhausted if and only if the prompt has no byte in 33..126;
\* redaction never exhausts a prompt: one made only of blocklist terms, such
\* as "nude", succeeds with a core_prompt of '*' characters.
C27_ExhaustedIffNoVisibleByte ==
  (Ended /\ req.prompt # <<>>) =>
    /\ ret[1].error = "SanitizationExhausted" <=> ~HasVisibleByte(req.prompt)
    /\ ret[1].error = "none" <=> HasVisibleByte(req.prompt)
    /\ req.prompt = Bytes("nude") =>
         /\ ret[1].error = "none"
         /\ ret[1].scene[1].corePrompt = Bytes("****")

C27_Witness ==
  /\ Succeeded
  /\ req.prompt = Bytes("nude")
  /\ ret[1].scene[1].corePrompt = Bytes("****")
\* The plan with its three copied fields blanked.
WithoutOptions(p) ==
  [p EXCEPT !.mode = "TextToImage", !.safety = "Safe", !.quality = "Draft"]

\* C28: mode, safety profile and quality preset influence neither the
\* sanitizer nor the classifiers: two invocations with the same raw prompt
\* have the same error or plans equal in every field but mode, safety and
\* quality, and these three are the values of the request; the blocklist is
\* applied under allow-nsfw as under safe.
C28_OptionsCopiedOnly ==
  \A i, j \in 1..Len(log) :
    /\ log[i].out.error = "none" =>
         /\ log[i].out.scene[1].mode = log[i].req.mode
         /\ log[i].out.scene[1].safety = log[i].req.safety
         /\ log[i].out.scene[1].quality = log[i].req.quality
    /\ log[i].req.prompt = log[j].req.prompt =>
         /\ log[i].out.error = log[j].out.error
         /\ log[i].out.error = "none" =>
              WithoutOptions(log[i].out.scene[1]) = WithoutOptions(log[j].out.scene[1])

C28_Witness ==
  /\ Len(log) >= 2
  /\ log[1].req = Request(Bytes("a NUDE cat"), "TextToImage", "Safe", "High")
  /\ log[2].req = Request(Bytes("a NUDE cat"), "TextToImage", "AllowNSFW", "High")
  /\ log[2].out.error = "none"
  /\ log[2].out.scene[1].corePrompt = Bytes("a **** cat")
  /\ log[2].out.scene[1].safety = "AllowNSFW"
  /\ log[1].out.scene[1] # log[2].out.scene[1]
\* BuildSemanticIGSpec called with r and run from its first statement to its
\* last with nothing in between: what the caller gets.
RunAlone(r) ==
  IF r.prompt = <<>> THEN Thrown("InvalidInput")
  ELSE LET redacted ==
             stripNSFWMarkers(collapseWhitespace(stripControl(r.prompt)))
       IN  IF redacted = <<>> THEN Thrown("SanitizationExhausted")
           ELSE LET scene == assembleScenePlan(truncatePrompt(redacted), r.mode,
                                               r.safety, r.quality)
                IN  Returned([scene |-> scene,
                              jsonControl |-> serializeScenePlanToJSON(scene)])

\* A step either lets another thread go on, and changes the locals of no
\* invocation, or it is a step of one invocation and leaves the locals of all
\* others as they are.
StepOfOneInvocation ==
  \/ threads' = threads
  \/ \E i \in 1..Len(threads) :
       /\ threads' = [threads EXCEPT ![i] = Locals]
       /\ Locals' = threads[i]
       /\ log' = log

\* C23: invocations that run at the same time are independent: however the
\* steps of two or more invocations interleave, with no lock, each
\* invocation returns what it returns when it runs alone, and no invocation
\* writes what another one reads.
C23_ConcurrentInvocationsIndependent ==
  /\ [](\A k \in 1..Len(log) : log[k].out = RunAlone(log[k].req))
  /\ [](Ended => ret[1] = RunAlone(req))
  /\ [][StepOfOneInvocation]_vars

C23_Witness ==
  /\ Len(log) = 2
  /\ pc = "idle"
  /\ log[1].req.prompt = Bytes("a NUDE cat")
  /\ log[2].req.prompt = ScenarioA
  /\ threads[1].ran = StageOrder
  /\ ran = StageOrder
  /\ ret[1].scene[1].corePrompt = ScenarioA
\* run has been called: its arguments and the backends it has called so far
\* are known.
RunCalled == tracer.pc \notin {"unused", "idle"}

\* run has ended, with a trace or with an exception.
RunEnded == tracer.pc \in {"returned", "thrown"}

\* How often a backend was called.
Calls(name) == Cardinality({k \in 1..Len(tracer.calls) : tracer.calls[k] = name})

\* A buffer that is not wanted is not decoded into and is as it was passed.
UnwantedLeftAlone ==
  /\ ~tracer.args.want_image =>
       /\ Calls("decode_image") = 0
       /\ tracer.image_rgba_out = tracer.args.image_rgba_out
  /\ ~tracer.args.want_asset =>
       /\ Calls("decode_asset") = 0
       /\ tracer.asset_bytes_out = tracer.args.asset_bytes_out

\* The encoder and then the latent generator were called, once each, before
\* any decoder.
EncodedThenGenerated ==
  /\ Calls("encode") = 1 /\ Calls("generate_latents") = 1
  /\ Len(tracer.calls) >= 2
  /\ tracer.calls[1] = "encode" /\ tracer.calls[2] = "generate_latents"

CaptionWellFormed ==
  /\ Len(captioner.tokens) >= 1
  /\ Len(captioner.tokens) <= captioner.maxCaptionTokens + 1
  /\ captioner.tokens[1] = captioner.bosTokenId_
  /\ \A k \in 2..(Len(captioner.tokens) - 1) :
       captioner.tokens[k] # captioner.eosTokenId_

\* C30 as stated: GenerateCaptionTokens always terminates for any decoder
\* backend that returns; it calls NextTokenLogits at most maxCaptionTokens
\* times, the returned sequence starts with the begin token and has length
\* between 1 and maxCaptionTokens + 1, and the end token appears after
\* position 0 only as the last element.
C30_CaptionLoopBounded_AsStated ==
  /\ <>(captioner.pc \in {"returned", "thrown"})
  /\ [](captioner.calls <= captioner.maxCaptionTokens)
  /\ [](captioner.pc = "returned" => CaptionWellFormed)

\* C30, amended: the same for maxCaptionTokens >= 0; for a negative
\* maxCaptionTokens the call ends with an exception, before any call of
\* NextTokenLogits.
C30_CaptionLoopBounded ==
  /\ <>(captioner.pc \in {"returned", "thrown"})
  /\ [](captioner.maxCaptionTokens >= 0 =>
          /\ captioner.calls <= captioner.maxCaptionTokens
          /\ captioner.pc # "thrown"
          /\ captioner.pc \in {"loop", "returned"} => CaptionWellFormed)
  /\ [](captioner.maxCaptionTokens < 0 =>
          /\ captioner.calls = 0
          /\ captioner.pc \in {"idle", "thrown"})

C30_Witness ==
  /\ captioner.pc = "returned"
  /\ captioner.maxCaptionTokens = 3
  /\ captioner.bosTokenId_ = 0 /\ captioner.eosTokenId_ = 1
  /\ captioner.tokens = <<0, 2, 1>>
  /\ captioner.calls = 2
\* C29: for every decodable input image, with keepAspect and centerCrop set as
\* in the default configuration, the returned tensor has width targetWidth,
\* height targetHeight and a data length of 3 * targetWidth * targetHeight,
\* whatever the size and aspect ratio of the image.
C29_FixedSizeTensor ==
  (/\ preprocessor.pc = "returned"
   /\ preprocessor.config.keepAspect /\ preprocessor.config.centerCrop)
  => /\ preprocessor.tensor.width = preprocessor.config.targetWidth
     /\ preprocessor.tensor.height = preprocessor.config.targetHeight
     /\ preprocessor.tensor.data =
          3 * preprocessor.config.targetWidth * preprocessor.config.targetHeight

=============================================================================
